---- MODULE Spec2Model ----
(***************************************************************************)
(* balanced-k-groups: partition T = N*M weighted items into N groups of M  *)
(* items.  The module models the evaluator and its cache, the heuristic   *)
(* solvers, the local refinement operator and the "auto" orchestrator      *)
(* with its recovery fallback.                                             *)
(*                                                                         *)
(* Conventions.  Item indices are the 0-based indices of the source; TLA+  *)
(* sequences are 1-based, so item idx is items[idx + 1] and group g of the *)
(* source is position g + 1 of a grouping.  Capacities are positive        *)
(* integers, so every sum the source computes in floating point is exact   *)
(* here.  A standard deviation is kept as the exact rational variance      *)
(* varNum / varDen (stdev = sqrt of it).                                   *)
(***************************************************************************)
EXTENDS Integers, Sequences, FiniteSets, TLC

(***************************************************************************)
(* Bounds of the model.                                                    *)
(***************************************************************************)
MaxCap == 4
MaxGroups == 3
MaxGroupSize == 3
MaxItems == 6
MaxEvalCalls == 2
MaxRefineCap == 2

(***************************************************************************)
(* Generic helpers on sequences of numbers.                                *)
(***************************************************************************)
RECURSIVE SumSeq(_)
SumSeq(s) == IF s = <<>> THEN 0 ELSE Head(s) + SumSeq(Tail(s))

\* a JavaScript array is a tuple: the elements of positions 1..Len(f)
Array(f) == SubSeq(f, 1, Len(f))

\* an array of arrays
Arrays(groups) == Array([g \in 1..Len(groups) |-> Array(groups[g])])

RECURSIVE Flatten(_)
Flatten(groups) ==
  IF groups = <<>> THEN <<>> ELSE Head(groups) \o Flatten(Tail(groups))

Range(s) == {s[i] : i \in 1..Len(s)}

\* lexicographic order on sequences of integers (loop order, string order)
RECURSIVE SeqLess(_, _)
SeqLess(s, t) ==
  IF t = <<>> THEN FALSE
  ELSE IF s = <<>> THEN TRUE
  ELSE IF Head(s) # Head(t) THEN Head(s) < Head(t)
  ELSE SeqLess(Tail(s), Tail(t))

\* the element a nest of ascending loops reaches first
LexFirst(S) == CHOOSE c \in S : \A d \in S \ {c} : SeqLess(c, d)

\* Math.max(...sums) - Math.min(...sums)
DeltaOf(sums) ==
  (CHOOSE x \in Range(sums) : \A y \in Range(sums) : x >= y)
    - (CHOOSE x \in Range(sums) : \A y \in Range(sums) : x <= y)

\* items[idx].capacity for a valid index
CapOf(items, idx) == items[idx + 1].capacity

GroupSumOf(items, group) == SumSeq([i \in 1..Len(group) |-> CapOf(items, group[i])])

GroupSumsOf(items, groups) == [g \in 1..Len(groups) |-> GroupSumOf(items, groups[g])]

\* N groups of M indices covering 0..T-1 exactly once
IsPartition(groups, N, M) ==
  /\ Len(groups) = N
  /\ \A g \in 1..N : Len(groups[g]) = M
  /\ Range(Flatten(groups)) = 0..(N * M - 1)
  /\ Len(Flatten(groups)) = N * M

(***************************************************************************)
(* Evaluator (algorithms/evaluate.ts) and evaluation cache (cache.ts).     *)
(***************************************************************************)
HashMultiplier == 31
Word16 == 65536
Half16 == 32768
DefaultMaxCacheItems == 1000
DefaultMaxCacheGroups == 50
DefaultMaxCacheGroupSize == 100
GlobalCacheEntries == 200
MinCacheEntries == 10

\* An int32 as the two 16-bit halves of its unsigned value
ToHalves(h) ==
  IF h >= 0 THEN <<h \div Word16, h % Word16>>
  ELSE LET u == (h + 2147483647) + 1
       IN  <<(u \div Word16) + Half16, u % Word16>>

\* ToInt32 of the unsigned value hi * 2^16 + lo
FromHalves(p) ==
  IF p[1] < Half16 THEN p[1] * Word16 + p[2]
  ELSE (p[1] - Word16) * Word16 + p[2]

\* hash = ((hash << 5) - hash + x) & 0xffffffff, in 32-bit arithmetic
HashStep(hash, x) ==
  LET p   == ToHalves(hash)
      raw == HashMultiplier * p[2] + x
      lo  == raw % Word16
      hi  == (HashMultiplier * p[1] + (raw \div Word16)) % Word16
  IN  FromHalves(<<hi, lo>>)

RECURSIVE HashFrom(_, _)
HashFrom(hash, flat) ==
  IF flat = <<>> THEN hash
  ELSE CHOOSE out \in {HashFrom(next, Tail(flat)) :
                         next \in {HashStep(hash, Head(flat))}} : TRUE

\* hashGrouping: the key is hash.toString(36), one string per int32, so the
\* int32 itself stands for the key
hashGrouping(groupsByIndex) == HashFrom(0, Flatten(groupsByIndex))

ValidIndex(items, idx) == idx >= 0 /\ idx < Len(items)

\* evaluateGroupingFastCPU: items[idx]!.capacity throws a TypeError on an index
\* outside the array; otherwise sums, delta and the variance of the sums
evaluateGroupingFastCPU(items, groupsByIndex) ==
  IF \E i \in 1..Len(Flatten(groupsByIndex)) :
        ~ValidIndex(items, Flatten(groupsByIndex)[i])
  THEN [kind |-> "error"]
  ELSE LET sums  == GroupSumsOf(items, groupsByIndex)
           n     == Len(sums)
           total == SumSeq(sums)
       IN  [kind      |-> "ok",
            groupSums |-> sums,
            delta     |-> DeltaOf(sums),
            varNum    |-> SumSeq([g \in 1..n |-> (n * sums[g] - total) * (n * sums[g] - total)]),
            varDen    |-> n * n * n,
            total     |-> total]

\* EvaluationCache.get on one bucket (a Map in insertion order)
CacheHas(bucket, key) == \E i \in 1..Len(bucket) : bucket[i].key = key

CacheGet(bucket, key) ==
  bucket[CHOOSE i \in 1..Len(bucket) : bucket[i].key = key].value

\* EvaluationCache.set on one bucket: evict the oldest entry when full, then
\* Map.set (an existing key keeps its place).  "if (firstKey)" skips the
\* eviction when the oldest key is falsy; falsy is the set of such keys
CacheSet(bucket, key, value, maxEntries, falsy) ==
  LET kept == IF Len(bucket) >= maxEntries /\ Len(bucket) > 0
                   /\ bucket[1].key \notin falsy
              THEN Tail(bucket) ELSE bucket
  IN  IF CacheHas(kept, key)
      THEN [i \in 1..Len(kept) |->
              IF kept[i].key = key THEN [key |-> key, value |-> value] ELSE kept[i]]
      ELSE Append(kept, [key |-> key, value |-> value])

\* new EvaluationCache(200): maxEntriesPerItemsRef = Math.max(10, 200)
GlobalMaxEntries ==
  IF MinCacheEntries >= GlobalCacheEntries THEN MinCacheEntries ELSE GlobalCacheEntries

shouldSkipCache(groupsByIndex, opts) ==
  \/ Len(Flatten(groupsByIndex)) > opts.maxCacheItems
  \/ Len(groupsByIndex) > opts.maxCacheGroups
  \/ \E g \in 1..Len(groupsByIndex) : Len(groupsByIndex[g]) > opts.maxCacheGroupSize

DefaultEvalOpts ==
  [maxCacheItems     |-> DefaultMaxCacheItems,
   maxCacheGroups    |-> DefaultMaxCacheGroups,
   maxCacheGroupSize |-> DefaultMaxCacheGroupSize]

\* evaluateGrouping: [out |-> what the call returns or "error", bucket |-> the
\* items array's bucket after the call]; its keys, hash.toString(36), are
\* never the empty string
evaluateGrouping(items, bucket, groupsByIndex, opts) ==
  IF shouldSkipCache(groupsByIndex, opts)
  THEN [out |-> evaluateGroupingFastCPU(items, groupsByIndex), bucket |-> bucket]
  ELSE LET key == hashGrouping(groupsByIndex)
       IN  IF CacheHas(bucket, key)
           THEN [out |-> CacheGet(bucket, key), bucket |-> bucket]
           ELSE LET res == evaluateGroupingFastCPU(items, groupsByIndex)
                IN  IF res.kind = "error"
                    THEN [out |-> res, bucket |-> bucket]
                    ELSE [out |-> res,
                          bucket |-> CacheSet(bucket, key, res, GlobalMaxEntries, {})]

(***************************************************************************)
(* Evaluator state machine: a caller evaluates groupings against item      *)
(* arrays; the global cache persists between the calls.                    *)
(***************************************************************************)
VARIABLES evItems, evStore, evArg, evOut, evCalls

evVars == <<evItems, evStore, evArg, evOut, evCalls>>

\* state of a flow call
VARIABLES flItems, flShape, flRest, flState, flPc

flVars == <<flItems, flShape, flRest, flState, flPc>>

\* state of a kk call
VARIABLES kkItems, kkShape, kkGroups, kkIters, kkPc

kkVars == <<kkItems, kkShape, kkGroups, kkIters, kkPc>>

\* state of a localRefine call
VARIABLES lrItems, lrIn, lrOpts, lrSt, lrIters, lrPc

lrVars == <<lrItems, lrIn, lrOpts, lrSt, lrIters, lrPc>>

\* state of the orchestrator: the caller's items and shape, the recorded
\* performance history, the last call (options and clock readings), what it
\* returned and what the call before it returned
VARIABLES pbItems, pbShape, pbHistory, pbArg, pbOut, pbPrev, pbCalls

pbVars == <<pbItems, pbShape, pbHistory, pbArg, pbOut, pbPrev, pbCalls>>

\* state of a RecoveryManager: its strategies, the registration order of
\* their names, and the last recover call (the strategies whose recover ran,
\* in order, and what the call returned)
VARIABLES rmStrategies, rmRegistered, rmAttempted, rmOut

rmVars == <<rmStrategies, rmRegistered, rmAttempted, rmOut>>

\* state of a direct solver call: the items and shape, the call and its result
VARIABLES svItems, svShape, svCall, svOut

svVars == <<svItems, svShape, svCall, svOut>>

vars == <<evVars, flVars, kkVars, lrVars, pbVars, rmVars, svVars>>

\* two distinct item arrays (object identities) with the same contents
ItemRefs == {1, 2}

EvalItemCount == 2

\* indices a caller may pass: the valid ones, and invalid ones on both sides
EvalIndices == {-HashMultiplier, -1} \cup (0..EvalItemCount) \cup {HashMultiplier}

EvalGroupings ==
  {<<<<a>>>> : a \in EvalIndices}
    \cup {<<<<a, b>>>> : a, b \in EvalIndices}
    \cup {<<<<a>>, <<b>>>> : a, b \in EvalIndices}

EvalOptions == {DefaultEvalOpts, [DefaultEvalOpts EXCEPT !.maxCacheItems = 0]}

MkItems(caps) == [i \in 1..Len(caps) |-> [id |-> i - 1, capacity |-> caps[i]]]

CapSeqs(n) == [1..n -> 1..MaxCap]

EvInit ==
  /\ evItems \in {MkItems(c) : c \in {s \in CapSeqs(EvalItemCount) : s[1] < s[2]}}
  /\ evStore = [r \in ItemRefs |-> <<>>]
  /\ evArg = [ref |-> 0, grouping |-> <<>>, opts |-> DefaultEvalOpts]
  /\ evOut = [kind |-> "none"]
  /\ evCalls = 0

Evaluate(ref, g, opts) ==
  /\ evCalls < MaxEvalCalls
  /\ LET r == evaluateGrouping(evItems, evStore[ref], g, opts)
     IN  /\ evOut' = r.out
         /\ evStore' = [evStore EXCEPT ![ref] = r.bucket]
  /\ evArg' = [ref |-> ref, grouping |-> g, opts |-> opts]
  /\ evCalls' = evCalls + 1
  /\ UNCHANGED <<evItems, flVars, kkVars, lrVars, pbVars, rmVars, svVars>>

\* globalEvaluationCache.clear()
ClearCache ==
  /\ evCalls > 0
  /\ evStore' = [r \in ItemRefs |-> <<>>]
  /\ UNCHANGED <<evItems, evArg, evOut, evCalls, flVars, kkVars, lrVars, pbVars, rmVars, svVars>>

EvNext ==
  \/ \E ref \in ItemRefs, g \in EvalGroupings, opts \in EvalOptions :
        Evaluate(ref, g, opts)
  \/ ClearCache

(***************************************************************************)
(* Inputs of the solvers: N groups of M items, capacities 1..MaxCap.       *)
(***************************************************************************)
Shapes ==
  {sh \in (1..MaxGroups) \X (1..MaxGroupSize) : sh[1] * sh[2] <= MaxItems}

\* Array.prototype.sort is stable.  For a comparator "b.key - a.key" the
\* element at position j comes before the one at i when its key is larger, or
\* equal and j < i; the result lists the positions in sorted order.
SortDesc(keys) ==
  LET n    == Len(keys)
      rank == [i \in 1..n |->
                 Cardinality({j \in 1..n : \/ keys[j] > keys[i]
                                           \/ (keys[j] = keys[i] /\ j < i)})]
  IN  [p \in 1..n |-> CHOOSE i \in 1..n : rank[i] = p - 1]

\* indices.sort((a, b) => items[b].capacity - items[a].capacity)
SortedByCapacity(items, indices) ==
  LET pos == SortDesc([k \in 1..Len(indices) |-> CapOf(items, indices[k])])
  IN  [p \in 1..Len(indices) |-> indices[pos[p]]]

\* items.map((_, i) => i)
AllIndices(items) == [i \in 1..Len(items) |-> i - 1]

(***************************************************************************)
(* flow (algorithms/flow.ts): greedy placement of the capacity-sorted      *)
(* items, one loop iteration per step.                                     *)
(***************************************************************************)
\* the inner loop "for g = 1 .. groups-1" choosing best (0-based groups)
RECURSIVE flowBest(_, _, _, _, _)
flowBest(groupSums, groupsByIndex, groupSize, g, best) ==
  IF g >= Len(groupSums) THEN best
  ELSE flowBest(groupSums, groupsByIndex, groupSize, g + 1,
                IF groupSums[g + 1] < groupSums[best + 1]
                     /\ Len(groupsByIndex[g + 1]) < groupSize
                THEN g ELSE best)

\* one iteration of "for (const { idx, cap } of sorted)"
flowPlace(items, st, groupSize, idx) ==
  LET best == flowBest(st.groupSums, st.groupsByIndex, groupSize, 1, 0)
  IN  [groupsByIndex |-> [Arrays(st.groupsByIndex) EXCEPT ![best + 1] = Append(@, idx)],
       groupSums     |-> [Array(st.groupSums) EXCEPT ![best + 1] = @ + CapOf(items, idx)],
       iterations    |-> st.iterations + 1]

flowStart(groups) ==
  [groupsByIndex |-> [g \in 1..groups |-> <<>>],
   groupSums     |-> [g \in 1..groups |-> 0],
   iterations    |-> 0]

(***************************************************************************)
(* Swap moves between two groups, shared by the local searches of kk, lpt  *)
(* and localRefine.  A search state st holds groupsByIndex, the tracked    *)
(* groupSums and the number of applied moves.                              *)
(***************************************************************************)
\* A move <<g1, g2, i1, i2>> (1-1) or <<g1, g2, i1a, i1b, i2a, i2b>> (2-2),
\* 0-based: the positions it takes from g1 and from g2
MoveFrom(mv) == IF Len(mv) = 4 THEN <<mv[3]>> ELSE <<mv[3], mv[4]>>

MoveTo(mv) == IF Len(mv) = 4 THEN <<mv[4]>> ELSE <<mv[5], mv[6]>>

\* newSum1, newSum2 and newDelta of a move, from the tracked groupSums
MoveSums(items, st, mv) ==
  LET g1    == mv[1] + 1
      g2    == mv[2] + 1
      out   == [k \in 1..Len(MoveFrom(mv)) |->
                  CapOf(items, st.groupsByIndex[g1][MoveFrom(mv)[k] + 1])]
      in    == [k \in 1..Len(MoveTo(mv)) |->
                  CapOf(items, st.groupsByIndex[g2][MoveTo(mv)[k] + 1])]
      new1  == st.groupSums[g1] - SumSeq(out) + SumSeq(in)
      new2  == st.groupSums[g2] - SumSeq(in) + SumSeq(out)
  IN  [newSum1  |-> new1,
       newSum2  |-> new2,
       newDelta |-> DeltaOf([[Array(st.groupSums) EXCEPT ![g1] = new1] EXCEPT ![g2] = new2])]

\* the assignments of an applied move, in the order the code makes them
RECURSIVE AssignAll(_, _, _, _)
AssignAll(groupsByIndex, g, positions, values) ==
  IF positions = <<>> THEN groupsByIndex
  ELSE AssignAll([groupsByIndex EXCEPT ![g][Head(positions) + 1] = Head(values)],
                 g, Tail(positions), Tail(values))

ApplyMove(items, st, mv) ==
  LET g1   == mv[1] + 1
      g2   == mv[2] + 1
      idx1 == [k \in 1..Len(MoveFrom(mv)) |-> st.groupsByIndex[g1][MoveFrom(mv)[k] + 1]]
      idx2 == [k \in 1..Len(MoveTo(mv)) |-> st.groupsByIndex[g2][MoveTo(mv)[k] + 1]]
      ms   == MoveSums(items, st, mv)
  IN  [st EXCEPT
         !.groupsByIndex = AssignAll(AssignAll(Arrays(@), g1, MoveFrom(mv), idx2),
                                     g2, MoveTo(mv), idx1),
         !.groupSums = [[Array(@) EXCEPT ![g1] = ms.newSum1] EXCEPT ![g2] = ms.newSum2],
         !.improvements = @ + 1]

\* the moves of one kind (4: 1-1, 6: 2-2) that the nested loops
\* "g1 < g2, positions ascending" visit, tagged with the kind so that their
\* lexicographic order is the visiting order
Moves(groupsByIndex, kind) ==
  LET G == 0..(Len(groupsByIndex) - 1)
      P(g) == 0..(Len(groupsByIndex[g + 1]) - 1)
  IN  IF kind = 4
      THEN UNION {{<<4, g1, g2, i1, i2>> : i1 \in P(g1), i2 \in P(g2)} :
                    g1 \in G, g2 \in G}
      ELSE UNION {{<<6, g1, g2, m[1], m[2], m[3], m[4]>> :
                     m \in {x \in P(g1) \X P(g1) \X P(g2) \X P(g2) :
                              x[1] < x[2] /\ x[3] < x[4]}} :
                    g1 \in G, g2 \in G}

Max22Combinations == 200000

\* try11Swaps / try22Swaps and the loop nest of localOptimizeOneOne: the
\* first move in visiting order that lowers delta, <<>> when there is none
FirstImproving(items, st, kind) ==
  LET Pairs(n) == (n * (n - 1)) \div 2
      better == {m \in Moves(st.groupsByIndex, kind) :
                   /\ m[2] < m[3]
                   /\ kind = 6 =>
                        Pairs(Len(st.groupsByIndex[m[2] + 1]))
                          * Pairs(Len(st.groupsByIndex[m[3] + 1])) <= Max22Combinations
                   /\ MoveSums(items, st, Tail(m)).newDelta < DeltaOf(st.groupSums)}
  IN  IF better = {} THEN <<>> ELSE Tail(LexFirst(better))

(***************************************************************************)
(* kk (algorithms/kk.ts): bisection of the largest-sum set, size repair    *)
(* and 1-1 swap optimisation.                                              *)
(***************************************************************************)
KKMaxRepairIters == 1000
KKMaxLocalIters == 300

RECURSIVE splitFold(_, _, _, _)
splitFold(items, rest, left, right) ==
  IF rest = <<>> THEN <<left, right>>
  ELSE IF GroupSumOf(items, left) <= GroupSumOf(items, right)
       THEN splitFold(items, Tail(rest), Append(left, Head(rest)), right)
       ELSE splitFold(items, Tail(rest), left, Append(right, Head(rest)))

splitIntoTwo(items, indices) ==
  splitFold(items, SortedByCapacity(items, indices), <<>>, <<>>)

\* one iteration of "while (partitions.length < groups)": the partitions
\* after it, and whether the loop was left by the break
kkSplit(items, partitions) ==
  LET pos    == SortDesc(GroupSumsOf(items, partitions))
      sorted == [p \in 1..Len(partitions) |-> partitions[pos[p]]]
      top    == Head(sorted)
  IN  IF Len(top) <= 1
      THEN [partitions |-> Tail(sorted), stopped |-> TRUE]
      ELSE [partitions |-> Tail(sorted) \o splitIntoTwo(items, top),
            stopped    |-> FALSE]

\* "while (partitions.length > groups)": merge the two smallest sets
RECURSIVE kkMerge(_, _, _)
kkMerge(items, partitions, groups) ==
  IF Len(partitions) <= groups THEN partitions
  ELSE LET pos    == SortDesc([k \in 1..Len(partitions) |->
                                 -GroupSumOf(items, partitions[k])])
           sorted == [p \in 1..Len(partitions) |-> partitions[pos[p]]]
       IN  kkMerge(items,
                   Append(Tail(Tail(sorted)), sorted[1] \o sorted[2]),
                   groups)

\* 0-based position of the first TRUE, -1 when there is none
FirstTrue(flags) ==
  IF \E g \in 1..Len(flags) : flags[g]
  THEN (CHOOSE g \in 1..Len(flags) :
          flags[g] /\ \A h \in 1..(g - 1) : ~flags[h]) - 1
  ELSE -1

\* the loop choosing bestIdxInDonor (0-based position in the donor group)
RECURSIVE repairBest(_, _, _, _, _, _, _, _)
repairBest(items, sums, donorGroup, donor, receiver, i, bestIdx, bestDelta) ==
  IF i >= Len(donorGroup) THEN bestIdx
  ELSE LET cap == CapOf(items, donorGroup[i + 1])
           d   == DeltaOf([[Array(sums) EXCEPT ![donor + 1] = @ - cap]
                             EXCEPT ![receiver + 1] = @ + cap])
       IN  IF d <= bestDelta
           THEN repairBest(items, sums, donorGroup, donor, receiver, i + 1, i, d)
           ELSE repairBest(items, sums, donorGroup, donor, receiver, i + 1, bestIdx, bestDelta)

\* the step without the choice: the first item of the donor is moved
repairStepFirst(items, groupsByIndex, groupSize) ==
  LET n        == Len(groupsByIndex)
      donor    == FirstTrue([g \in 1..n |-> Len(groupsByIndex[g]) > groupSize])
      receiver == FirstTrue([g \in 1..n |-> Len(groupsByIndex[g]) < groupSize])
  IN  IF donor = -1 \/ receiver = -1
      THEN [groupsByIndex |-> groupsByIndex, done |-> TRUE]
      ELSE [groupsByIndex |->
              [[Arrays(groupsByIndex) EXCEPT ![donor + 1] = Tail(@)]
                 EXCEPT ![receiver + 1] = Append(@, Head(groupsByIndex[donor + 1]))],
            done |-> FALSE]

\* one iteration of the while loop of repairToExactSizes: the groups after
\* it; done when the loop was left by the break
repairStep(items, groupsByIndex, groupSize) ==
  LET n        == Len(groupsByIndex)
      donor    == FirstTrue([g \in 1..n |-> Len(groupsByIndex[g]) > groupSize])
      receiver == FirstTrue([g \in 1..n |-> Len(groupsByIndex[g]) < groupSize])
  IN  IF donor = -1 \/ receiver = -1
      THEN [groupsByIndex |-> groupsByIndex, done |-> TRUE]
      ELSE LET sums    == GroupSumsOf(items, groupsByIndex)
               dg      == groupsByIndex[donor + 1]
               best    == repairBest(items, sums, dg, donor, receiver, 0, -1, DeltaOf(sums))
               moveIdx == IF best >= 0 THEN best ELSE Len(dg) - 1
           IN  [groupsByIndex |->
                  [[Arrays(groupsByIndex) EXCEPT ![donor + 1] =
                        SubSeq(@, 1, moveIdx) \o SubSeq(@, moveIdx + 2, Len(@))]
                     EXCEPT ![receiver + 1] = Append(@, dg[moveIdx + 1])],
                done |-> FALSE]

RECURSIVE repairToExactSizes(_, _, _, _, _)
repairToExactSizes(items, groupsByIndex, groupSize, iter, maxIters) ==
  IF iter >= maxIters THEN groupsByIndex
  ELSE LET r == repairStep(items, groupsByIndex, groupSize)
       IN  IF r.done THEN r.groupsByIndex
           ELSE repairToExactSizes(items, r.groupsByIndex, groupSize, iter + 1, maxIters)

\* one pass of the while loop of localOptimizeOneOne: the first swap with
\* a smaller delta is applied
localOptimizeStep(items, groupsByIndex) ==
  LET st == [groupsByIndex |-> groupsByIndex,
             groupSums     |-> GroupSumsOf(items, groupsByIndex),
             improvements  |-> 0]
      mv == FirstImproving(items, st, 4)
  IN  IF mv = <<>>
      THEN [groupsByIndex |-> groupsByIndex, improved |-> FALSE]
      ELSE [groupsByIndex |-> ApplyMove(items, st, mv).groupsByIndex,
            improved      |-> TRUE]

RECURSIVE localOptimizeOneOne(_, _, _, _)
localOptimizeOneOne(items, groupsByIndex, iters, maxLocalIters) ==
  IF iters >= maxLocalIters THEN [groupsByIndex |-> groupsByIndex, iters |-> iters]
  ELSE LET r == localOptimizeStep(items, groupsByIndex)
       IN  IF r.improved
           THEN localOptimizeOneOne(items, r.groupsByIndex, iters + 1, maxLocalIters)
           ELSE [groupsByIndex |-> r.groupsByIndex, iters |-> iters + 1]

RECURSIVE kkBisect(_, _, _)
kkBisect(items, partitions, groups) ==
  IF Len(partitions) >= groups THEN partitions
  ELSE LET r == kkSplit(items, partitions)
       IN  IF r.stopped THEN r.partitions
           ELSE kkBisect(items, r.partitions, groups)

\* a Grouping: ids, sums and delta computed from the index groups
MkGrouping(items, groupsByIndex, iterations, methodUsed) ==
  [groupsById    |-> [g \in 1..Len(groupsByIndex) |->
                        [k \in 1..Len(groupsByIndex[g]) |->
                           items[groupsByIndex[g][k] + 1].id]],
   groupsByIndex |-> groupsByIndex,
   groupSums     |-> GroupSumsOf(items, groupsByIndex),
   delta         |-> DeltaOf(GroupSumsOf(items, groupsByIndex)),
   iterations    |-> iterations,
   methodUsed    |-> methodUsed]

kk(items, groups, groupSize) ==
  LET Result(local) == MkGrouping(items, local.groupsByIndex, 1 + local.iters, "kk")
  IN  Result(localOptimizeOneOne(items,
               repairToExactSizes(items,
                 kkMerge(items, kkBisect(items, <<AllIndices(items)>>, groups), groups),
                 groupSize, 0, KKMaxRepairIters),
               0, KKMaxLocalIters))

KkInit ==
  /\ kkShape \in Shapes
  /\ kkItems \in {MkItems(c) : c \in CapSeqs(kkShape[1] * kkShape[2])}
  /\ kkGroups = <<AllIndices(kkItems)>>
  /\ kkIters = 0
  /\ kkPc = "split"

KKSplit ==
  /\ kkPc = "split"
  /\ Len(kkGroups) < kkShape[1]
  /\ LET r == kkSplit(kkItems, kkGroups)
     IN  /\ kkGroups' = r.partitions
         /\ kkPc' = IF r.stopped THEN "merge" ELSE "split"
  /\ UNCHANGED <<kkItems, kkShape, kkIters, evVars, flVars, lrVars, pbVars, rmVars, svVars>>

KKMerge ==
  /\ \/ kkPc = "merge"
     \/ (kkPc = "split" /\ Len(kkGroups) >= kkShape[1])
  /\ kkGroups' = kkMerge(kkItems, kkGroups, kkShape[1])
  /\ kkPc' = "repair"
  /\ UNCHANGED <<kkItems, kkShape, kkIters, evVars, flVars, lrVars, pbVars, rmVars, svVars>>

KKRepair ==
  /\ kkPc = "repair"
  /\ LET r == repairStep(kkItems, kkGroups, kkShape[2])
     IN  IF kkIters >= KKMaxRepairIters \/ r.done
         THEN kkPc' = "local" /\ kkIters' = 0 /\ UNCHANGED kkGroups
         ELSE kkPc' = "repair" /\ kkIters' = kkIters + 1
                /\ kkGroups' = r.groupsByIndex
  /\ UNCHANGED <<kkItems, kkShape, evVars, flVars, lrVars, pbVars, rmVars, svVars>>

KKLocal ==
  /\ kkPc = "local"
  /\ LET r == localOptimizeStep(kkItems, kkGroups)
     IN  IF kkIters >= KKMaxLocalIters
         THEN kkPc' = "done" /\ UNCHANGED <<kkGroups, kkIters>>
         ELSE /\ kkGroups' = r.groupsByIndex
              /\ kkIters' = kkIters + 1
              /\ kkPc' = IF r.improved THEN "local" ELSE "done"
  /\ UNCHANGED <<kkItems, kkShape, evVars, flVars, lrVars, pbVars, rmVars, svVars>>

KkNext == KKSplit \/ KKMerge \/ KKRepair \/ KKLocal

KkIdle ==
  /\ kkItems = <<>>
  /\ kkShape = <<0, 0>>
  /\ kkGroups = <<>>
  /\ kkIters = 0
  /\ kkPc = "idle"

(***************************************************************************)
(* localRefine (algorithms/localRefine.ts): 1-1 and 2-2 swaps between      *)
(* equal-sized groups, best-improvement or stochastic.                     *)
(***************************************************************************)
DefaultSeed == 123456789
LcgMultiplier == 1664525
LcgIncrement == 1013904223
RefineDefaultMaxIters == 200
MinAttempts == 100

\* randState = (1664525 * randState + 1013904223) >>> 0 on 16-bit halves
LcgNext(r) ==
  LET lo == (LcgMultiplier % Word16) * r[2] + (LcgIncrement % Word16)
  IN  <<((LcgMultiplier \div Word16) * r[2] + (LcgMultiplier % Word16) * r[1]
           + (LcgIncrement \div Word16) + (lo \div Word16)) % Word16,
        lo % Word16>>

\* the states of n successive calls of rand() (computed by halves)
RECURSIVE LcgSeq(_, _)
LcgSeq(r, n) ==
  IF n = 0 THEN <<>>
  ELSE IF n = 1 THEN <<LcgNext(r)>>
  ELSE LET first == LcgSeq(r, n \div 2)
       IN  first \o LcgSeq(first[n \div 2], n - (n \div 2))

\* Math.floor((randState / 0xffffffff) * k): with randState * k =
\* q * 2^32 + rem the quotient by 2^32 - 1 is q, or q + 1 when q + rem
\* reaches 2^32 - 1 (randState = 0xffffffff gives k)
RandFloor(r, k) ==
  LET lo  == r[2] * k
      mid == r[1] * k + (lo \div Word16)
      q   == mid \div Word16
  IN  IF (mid % Word16) = Word16 - 1 /\ (lo % Word16) >= Word16 - 1 - q
      THEN q + 1 ELSE q

\* a swap routine without the "newDelta < currentDelta" test
applyAlways(items, st, mv) ==
  [st |-> ApplyMove(items, st, mv), improved |-> TRUE, threw |-> FALSE]

\* apply11IfBetter / apply22IfBetter: the move is applied when it lowers delta
applyIfBetter(items, st, mv) ==
  IF MoveSums(items, st, mv).newDelta < DeltaOf(st.groupSums)
  THEN [st |-> ApplyMove(items, st, mv), improved |-> TRUE, threw |-> FALSE]
  ELSE [st |-> st, improved |-> FALSE, threw |-> FALSE]

iterateBest(items, st, opts) ==
  LET cur   == DeltaOf(st.groupSums)
      cands == {m \in Moves(st.groupsByIndex, 4) \cup Moves(st.groupsByIndex, 6) :
                  /\ m[2] < m[3]
                  /\ IF m[1] = 4 THEN opts.enable11 ELSE opts.enable22
                  /\ MoveSums(items, st, Tail(m)).newDelta < cur}
      least == {m \in cands :
                  \A n \in cands : MoveSums(items, st, Tail(m)).newDelta
                                     <= MoveSums(items, st, Tail(n)).newDelta}
  IN  IF cands = {}
      THEN [st |-> st, improved |-> FALSE, threw |-> FALSE]
      ELSE [st |-> ApplyMove(items, st, Tail(LexFirst(least))),
            improved |-> TRUE, threw |-> FALSE]

\* the move one attempt of iterateStochastic draws from rand(): draws[k] is
\* randState after the k-th call
DrawMove(draws, kind, groups, groupSize) ==
  LET g1  == RandFloor(draws[1], groups)
      g2r == RandFloor(draws[2], groups)
      g2  == IF g2r = g1 THEN (g2r + 1) % groups ELSE g2r
      D(k) == RandFloor(draws[k], groupSize)
      Other(a, b) == IF b = a THEN (b + 1) % groupSize ELSE b
  IN  IF kind = 4 THEN <<g1, g2, D(3), D(4)>>
      ELSE <<g1, g2, D(3), Other(D(3), D(4)), D(5), Other(D(5), D(6))>>

\* attempts lo .. hi-1 of one phase of iterateStochastic (kind 4: 1-1,
\* kind 6: 2-2), evaluated by halves.  An attempt draws its move from the
\* next kind calls of rand(); an index drawn outside its range makes the
\* access throw; the phase ends at the first attempt that applies its move.
RECURSIVE stochasticRange(_, _, _, _, _)
stochasticRange(items, st, kind, lo, hi) ==
  LET groups    == Len(st.groupsByIndex)
      groupSize == Len(st.groupsByIndex[1])
      mid       == lo + ((hi - lo) \div 2)
  IN  IF hi - lo <= 1
      THEN CHOOSE r \in
             {LET mv == DrawMove(draws, kind, groups, groupSize)
              IN  IF mv[1] >= groups \/ mv[2] >= groups
                       \/ \E k \in 3..kind : mv[k] >= groupSize
                  THEN [st |-> st, improved |-> FALSE, threw |-> TRUE]
                  ELSE applyIfBetter(items, [st EXCEPT !.rand = draws[kind]], mv) :
                draws \in {LcgSeq(st.rand, kind)}} : TRUE
      ELSE CHOOSE r \in
             {IF left.improved \/ left.threw THEN left
              ELSE stochasticRange(items, left.st, kind, mid, hi) :
                left \in {stochasticRange(items, st, kind, lo, mid)}} : TRUE

iterateStochastic(items, st, opts) ==
  LET size     == Len(st.groupsByIndex) * Len(st.groupsByIndex[1]) * 2
      attempts == IF MinAttempts >= size THEN MinAttempts ELSE size
      skip     == [st |-> st, improved |-> FALSE, threw |-> FALSE]
  IN  CHOOSE r \in
        {IF first.improved \/ first.threw \/ ~opts.enable22 THEN first
         ELSE stochasticRange(items, first.st, 6, 0, attempts) :
           first \in {IF opts.enable11
                      THEN stochasticRange(items, st, 4, 0, attempts)
                      ELSE skip}} : TRUE

\* best: both iteration caps and every choice of enabled swaps; stochastic:
\* both caps with both swaps and the default seed, a caller's seed and the
\* seed whose first rand() is exactly 1, and the 2-2 swaps alone
RefineOptions ==
  [strategy : {"best"}, maxIters : {1, RefineDefaultMaxIters},
   enable11 : BOOLEAN, enable22 : BOOLEAN, seed : {DefaultSeed}]
    \cup [strategy : {"stochastic"}, maxIters : {1, RefineDefaultMaxIters},
          enable11 : {TRUE}, enable22 : {TRUE},
          seed : {DefaultSeed, 42, 653637408}]
    \cup [strategy : {"stochastic"}, maxIters : {RefineDefaultMaxIters},
          enable11 : {FALSE}, enable22 : {TRUE}, seed : {DefaultSeed}]

\* input grouping: the indices in array order cut into N groups of M (the
\* size check of lines 42-46 passes); the capacities range over all arrays,
\* and the code reads a grouping only through the capacities at its positions
LrInit ==
  /\ \E sh \in Shapes :
       /\ lrItems \in {MkItems(c) : c \in [1..(sh[1] * sh[2]) -> 1..MaxRefineCap]}
       /\ lrIn = [g \in 1..sh[1] |-> [k \in 1..sh[2] |-> (g - 1) * sh[2] + k - 1]]
  /\ lrOpts \in {o \in RefineOptions : o.enable11 \/ o.enable22}
  /\ lrSt = [groupsByIndex |-> lrIn,
             groupSums     |-> GroupSumsOf(lrItems, lrIn),
             rand          |-> ToHalves(lrOpts.seed),
             improvements  |-> 0]
  /\ lrIters = 0
  /\ lrPc = "loop"

\* one pass of "while (improved && iterations < maxIters)"
LrIterate ==
  /\ lrPc = "loop"
  /\ lrIters < lrOpts.maxIters
  /\ LET r == IF lrOpts.strategy = "best"
              THEN iterateBest(lrItems, lrSt, lrOpts)
              ELSE iterateStochastic(lrItems, lrSt, lrOpts)
     IN  /\ lrSt' = r.st
         /\ lrPc' = IF r.threw THEN "threw"
                    ELSE IF r.improved THEN "loop" ELSE "done"
  /\ lrIters' = lrIters + 1
  /\ UNCHANGED <<lrItems, lrIn, lrOpts, evVars, flVars, kkVars, pbVars, rmVars, svVars>>

LrReturn ==
  /\ lrPc = "loop"
  /\ lrIters >= lrOpts.maxIters
  /\ lrPc' = "done"
  /\ UNCHANGED <<lrItems, lrIn, lrOpts, lrSt, lrIters, evVars, flVars, kkVars, pbVars, rmVars, svVars>>

LrNext == LrIterate \/ LrReturn

LrIdle ==
  /\ lrItems = <<>>
  /\ lrIn = <<>>
  /\ lrOpts = [strategy |-> "best"]
  /\ lrSt = [groupsByIndex |-> <<>>]
  /\ lrIters = 0
  /\ lrPc = "idle"

(***************************************************************************)
(* Comparators (utils/comparators.ts) and the cyclic assignment shared by  *)
(* round robin, the fallbacks of dp and backtracking and the graceful      *)
(* degradation.                                                            *)
(***************************************************************************)
\* String(id) of a non-negative integer id: its decimal digits
RECURSIVE Digits(_)
Digits(n) == IF n < 10 THEN <<n>> ELSE Append(Digits(n \div 10), n % 10)

compareIds(a, b) ==
  IF SeqLess(Digits(a), Digits(b)) THEN -1
  ELSE IF SeqLess(Digits(b), Digits(a)) THEN 1 ELSE 0

compareItemsByCapacity(a, b) ==
  IF b.capacity - a.capacity # 0 THEN b.capacity - a.capacity
  ELSE compareIds(a.id, b.id)

\* indexedItems.sort((a, b) => compareItemsByCapacity(a.item, b.item)): the
\* original indices in sorted order (the sort is stable)
SortedItems(items) ==
  LET n    == Len(items)
      rank == [i \in 1..n |->
                 Cardinality({j \in 1..n :
                    \E c \in {compareItemsByCapacity(items[j], items[i])} :
                       c < 0 \/ (c = 0 /\ j < i)})]
  IN  [p \in 1..n |-> (CHOOSE i \in 1..n : rank[i] = p - 1) - 1]

\* the cyclic assignment with a loop that starts at the second element
CyclicSkipFirst(order, groups) ==
  [g \in 1..groups |->
     [k \in 1..(IF g > Len(order) - 1 THEN 0 ELSE ((Len(order) - 1 - g) \div groups) + 1) |->
        order[(k - 1) * groups + g + 1]]]

\* the element at position i (0-based) of the order goes to group i % groups
Cyclic(order, groups) ==
  [g \in 1..groups |->
     [k \in 1..(IF g > Len(order) THEN 0 ELSE ((Len(order) - g) \div groups) + 1) |->
        order[(k - 1) * groups + g]]]

(***************************************************************************)
(* Round robin (algorithms/roundrobin.ts).                                 *)
(***************************************************************************)
RoundRobinBasicMaxItems == 20

roundRobinPartition(items, groups, groupSize) ==
  MkGrouping(items, Cyclic(SortedItems(items), groups), 1, "roundrobin")

optimizedRoundRobinPartition(items, groups, groupSize) ==
  LET RECURSIVE pick(_, _, _)
      \* "for (let g = 1; g < groups; g++)" starting from bestGroup = 0
      pick(st, g, best) ==
        IF g >= groups THEN best
        ELSE pick(st, g + 1,
                  IF Len(st.groupsByIndex[g + 1]) < groupSize
                       /\ st.groupSums[g + 1] < st.groupSums[best + 1]
                  THEN g ELSE best)
      place(st, idx) ==
        LET best  == pick(st, 1, 0)
            space == FirstTrue([g \in 1..groups |-> Len(st.groupsByIndex[g]) < groupSize])
            to    == IF Len(st.groupsByIndex[best + 1]) >= groupSize /\ space # -1
                     THEN space ELSE best
        IN  [groupsByIndex |-> [Arrays(st.groupsByIndex) EXCEPT ![to + 1] = Append(@, idx)],
             groupSums     |-> [Array(st.groupSums) EXCEPT ![to + 1] = @ + CapOf(items, idx)]]
      RECURSIVE loop(_, _)
      loop(st, rest) ==
        IF rest = <<>> THEN st
        ELSE CHOOSE out \in {loop(next, Tail(rest)) :
                               next \in {place(st, Head(rest))}} : TRUE
  IN  MkGrouping(items,
                 loop([groupsByIndex |-> [g \in 1..groups |-> <<>>],
                       groupSums     |-> [g \in 1..groups |-> 0]],
                      SortedItems(items)).groupsByIndex,
                 1, "roundrobin-optimized")

\* roundRobin: the seed is not used; "optimized" defaults to true
roundRobin(items, groups, groupSize) ==
  IF Len(items) <= RoundRobinBasicMaxItems
  THEN roundRobinPartition(items, groups, groupSize)
  ELSE optimizedRoundRobinPartition(items, groups, groupSize)

(***************************************************************************)
(* LPT (algorithms/lpt.ts): greedy assignment, then 1-1 and 2-2 swaps.     *)
(***************************************************************************)
LptMaxGroupsForRefinement == 20
LptMaxGroupSizeForRefinement == 50

\* performLocalRefinement: the search state after the loop and the number
\* of passes
RECURSIVE performLocalRefinement(_, _, _, _)
performLocalRefinement(items, st, iterations, maxIters) ==
  IF iterations >= maxIters THEN [st |-> st, iterations |-> iterations]
  ELSE LET mv11 == FirstImproving(items, st, 4)
           mv22 == FirstImproving(items, st, 6)
       IN  IF mv11 # <<>>
           THEN performLocalRefinement(items, ApplyMove(items, st, mv11),
                                       iterations + 1, maxIters)
           ELSE IF mv22 # <<>>
           THEN performLocalRefinement(items, ApplyMove(items, st, mv22),
                                       iterations + 1, maxIters)
           ELSE [st |-> st, iterations |-> iterations + 1]

\* lptPartition (lpt with the default useAdvanced = false)
lptPartition(items, groups, groupSize, options) ==
  LET RECURSIVE pick(_, _, _)
      \* "for (let g = 0; g < groups; g++)" from bestGroup = -1, bestSum = Infinity
      pick(st, g, best) ==
        IF g >= groups THEN best
        ELSE pick(st, g + 1,
                  IF Len(st.groupsByIndex[g + 1]) < groupSize
                       /\ (best = -1 \/ st.groupSums[g + 1] < st.groupSums[best + 1])
                  THEN g ELSE best)
      RECURSIVE least(_, _, _)
      \* no group has space: the first group with the minimum sum
      least(st, g, best) ==
        IF g >= groups THEN best
        ELSE least(st, g + 1,
                   IF st.groupSums[g + 1] < st.groupSums[best + 1] THEN g ELSE best)
      place(st, idx) ==
        LET found == pick(st, 0, -1)
            to    == IF found = -1 THEN least(st, 1, 0) ELSE found
        IN  [groupsByIndex |-> [Arrays(st.groupsByIndex) EXCEPT ![to + 1] = Append(@, idx)],
             groupSums     |-> [Array(st.groupSums) EXCEPT ![to + 1] = @ + CapOf(items, idx)],
             improvements  |-> 0]
      RECURSIVE loop(_, _)
      loop(st, rest) ==
        IF rest = <<>> THEN st
        ELSE CHOOSE out \in {loop(next, Tail(rest)) :
                               next \in {place(st, Head(rest))}} : TRUE
      greedy == loop([groupsByIndex |-> [g \in 1..groups |-> <<>>],
                      groupSums     |-> [g \in 1..groups |-> 0],
                      improvements  |-> 0],
                     SortedItems(items))
      refine == options.useRefinement
                  /\ groups <= LptMaxGroupsForRefinement
                  /\ groupSize <= LptMaxGroupSizeForRefinement
      refined == performLocalRefinement(items, greedy, 0, options.maxRefinementIters)
  IN  IF refine
      THEN MkGrouping(items, refined.st.groupsByIndex, 1 + refined.iterations, "lpt-refined")
      ELSE MkGrouping(items, greedy.groupsByIndex, 1, "lpt")

(***************************************************************************)
(* dp (algorithms/dp.ts).  The table is finite only at i = j * groupSize,  *)
(* so a completed table yields the blocks of groupSize consecutive         *)
(* positions; rows is the number of rows after which the time check of     *)
(* the row loop first succeeds.                                            *)
(***************************************************************************)
DpDefaultMaxIters == 1000
DpMaxTotalSum == 10000
DpMaxItems == 20
DpMaxMemoryBytes == 52428800
DpScaleBase == 1000

dp(items, groups, groupSize, rows) ==
  LET T        == Len(items)
      sorted   == SortedItems(items)
      caps     == [p \in 1..T |-> CapOf(items, sorted[p])]
      total    == SumSeq(caps)
      byMax    == DpScaleBase \div caps[1]
      scale    == IF byMax >= 1 THEN byMax ELSE 1
      memory   == (T + 1) * (groups + 1) * (total * scale + 1) * 8
      limit    == IF rows <= DpDefaultMaxIters + 1 THEN rows ELSE DpDefaultMaxIters + 1
      done     == IF T <= limit THEN T ELSE limit
      blocks   == [g \in 1..groups |-> [k \in 1..groupSize |-> (g - 1) * groupSize + k - 1]]
      fallback == Cyclic(sorted, groups)
  IN  IF T # groups * groupSize \/ T > DpMaxItems \/ total > DpMaxTotalSum
           \/ memory > DpMaxMemoryBytes
      THEN [kind |-> "threw"]
      ELSE IF done < T
      THEN [kind |-> "ok", groupsByIndex |-> fallback,
            groupSums |-> GroupSumsOf(items, fallback),
            iterations |-> done, method |-> "dp-fallback"]
      ELSE [kind |-> "ok", groupsByIndex |-> blocks,
            groupSums |-> GroupSumsOf(items, blocks),
            iterations |-> done, method |-> "dp-integer-scaled"]

(***************************************************************************)
(* backtracking (algorithms/backtracking.ts).  Deviations from the target  *)
(* sum totalSum / groups are kept multiplied by groups, so they are exact  *)
(* integers: |sum - targetSum| is |groups * sum - totalSum|.  visits is    *)
(* the number of calls of backtrackRecursive after which the time check    *)
(* first succeeds.  The search state S holds iterations, bestDelta (with   *)
(* finite FALSE while it is Infinity) and bestGroups.                      *)
(***************************************************************************)
BtDefaultMaxIters == 10000
BtDefaultMaxDepth == 50

backtracking(items, groups, groupSize, options, visits) ==
  LET T      == Len(items)
      sorted == SortedByCapacity(items, AllIndices(items))
      caps   == [p \in 1..T |-> CapOf(items, sorted[p])]
      total  == SumSeq(caps)
      Dev(sum) == IF groups * sum >= total THEN groups * sum - total
                  ELSE total - groups * sum
      Larger(a, b) == IF a >= b THEN a ELSE b
      Worse(d, S) == S.finite /\ d >= S.bestDelta
      RECURSIVE devOver(_, _, _)
      \* max of |currentSums[g] - targetSum| over the groups with a sum > 0
      devOver(sums, g, acc) ==
        IF g > groups THEN acc
        ELSE devOver(sums, g + 1,
                     IF sums[g] > 0 THEN Larger(acc, Dev(sums[g])) ELSE acc)
      calculateLowerBound(cg, cs) ==
        IF ~options.enableBoundCalculation THEN 0
        ELSE IF T - Len(Flatten(cg)) = 0 THEN devOver(cs, 1, 0)
        ELSE Larger(devOver(cs, 1, 0), SumSeq(cs))
      canImprove(cg, cs, cd, S) ==
        IF ~options.enablePruning THEN TRUE
        ELSE IF Worse(cd, S) THEN FALSE
        ELSE IF Worse(calculateLowerBound(cg, cs), S) THEN FALSE
        ELSE IF T - Len(Flatten(cg)) = 0 THEN TRUE
        ELSE ~\E g \in 1..groups :
                Len(cg[g]) = groupSize /\ 2 * groups * cs[g] > 3 * total
      RECURSIVE backtrackRecursive(_, _, _, _, _, _)
      RECURSIVE assign(_, _, _, _, _, _, _)
      backtrackRecursive(itemIndex, cg, cs, cd, depth, S0) ==
        LET S == [S0 EXCEPT !.iterations = @ + 1]
        IN  IF S.iterations > options.maxIters \/ S.iterations > visits THEN S
            ELSE IF depth > options.maxRecursionDepth THEN S
            ELSE IF options.enableEarlyTermination /\ S.finite
                      /\ 10 * S.bestDelta <= groups
                 THEN S
            ELSE IF ~canImprove(cg, cs, cd, S) THEN S
            ELSE IF itemIndex = T
                 THEN IF ~Worse(cd, S)
                      THEN [S EXCEPT !.finite = TRUE, !.bestDelta = cd, !.bestGroups = cg]
                      ELSE S
            ELSE assign(itemIndex, cg, cs, cd, depth, 0, S)
      \* "for (let g = 0; g < targetGroups; g++)" from group g on
      assign(itemIndex, cg, cs, cd, depth, g, S) ==
        IF g >= groups THEN S
        ELSE IF Len(cg[g + 1]) < groupSize
        THEN LET newSum == cs[g + 1] + caps[itemIndex + 1]
             IN  assign(itemIndex, cg, cs, cd, depth, g + 1,
                        backtrackRecursive(itemIndex + 1,
                                           [Arrays(cg) EXCEPT ![g + 1] = Append(@, itemIndex)],
                                           [Array(cs) EXCEPT ![g + 1] = newSum],
                                           Larger(cd, Dev(newSum)),
                                           depth + 1, S))
        ELSE assign(itemIndex, cg, cs, cd, depth, g + 1, S)
      final == backtrackRecursive(0, [g \in 1..groups |-> <<>>],
                                  [g \in 1..groups |-> 0], 0, 0,
                                  [iterations |-> 0, finite |-> FALSE, bestDelta |-> 0,
                                   bestGroups |-> <<>>])
      found == [g \in 1..groups |->
                  [k \in 1..Len(final.bestGroups[g]) |-> sorted[final.bestGroups[g][k] + 1]]]
      fallback == Cyclic(sorted, groups)
  IN  IF T # groups * groupSize THEN [kind |-> "threw"]
      ELSE IF Len(final.bestGroups) = 0
      THEN [kind |-> "ok", groupsByIndex |-> fallback,
            groupSums |-> GroupSumsOf(items, fallback),
            iterations |-> final.iterations, method |-> "backtracking-fallback"]
      ELSE [kind |-> "ok", groupsByIndex |-> found,
            groupSums |-> GroupSumsOf(items, found),
            iterations |-> final.iterations, method |-> "backtracking"]

(***************************************************************************)
(* Validation (validation.ts, evaluate.ts) and recovery                    *)
(* (earlyTermination.ts).                                                  *)
(***************************************************************************)
MaxGroupParameter == 1000

\* validatePartitionInputs: TRUE when no check throws
validatePartitionInputs(items, groups, groupSize) ==
  /\ Len(items) > 0
  /\ groups > 0 /\ groupSize > 0
  /\ groups <= MaxGroupParameter /\ groupSize <= MaxGroupParameter
  /\ Len(items) = groups * groupSize
  /\ \A i, j \in 1..Len(items) : items[i].id = items[j].id => i = j
  /\ \A i \in 1..Len(items) : items[i].capacity > 0

\* with every check of validateGrouping but the validity of the indices
validateGroupingIndicesOnly(items, groupsByIndex, expectedGroupSize) ==
  \A k \in 1..Len(Flatten(groupsByIndex)) : ValidIndex(items, Flatten(groupsByIndex)[k])

\* validateGrouping: TRUE when errors is empty
validateGrouping(items, groupsByIndex, expectedGroupSize) ==
  /\ \A g \in 1..Len(groupsByIndex) : Len(groupsByIndex[g]) = expectedGroupSize
  /\ Len(Flatten(groupsByIndex)) = Cardinality(Range(Flatten(groupsByIndex)))
  /\ Cardinality(Range(Flatten(groupsByIndex))) = Len(items)
  /\ \A k \in 1..Len(Flatten(groupsByIndex)) : ValidIndex(items, Flatten(groupsByIndex)[k])

\* createGracefulDegradation: the result has no iterations field
createGracefulDegradation(items, groups, groupSize) ==
  LET r == MkGrouping(items, Cyclic(SortedByCapacity(items, AllIndices(items)), groups),
                      0, "graceful-degradation")
  IN  [groupsById |-> r.groupsById, groupsByIndex |-> r.groupsByIndex,
       groupSums |-> r.groupSums, delta |-> r.delta, methodUsed |-> r.methodUsed]

\* the strategies of a new RecoveryManager, in order: the error classes
\* canHandle accepts and what recover returns (null is <<>>)
DefaultStrategies ==
  <<[name |-> "NumericalPrecisionRecovery", handles |-> {"NumericalError"},
     throws |-> FALSE, result |-> <<>>],
    [name |-> "ProblemSizeReduction", handles |-> {"MemoryError", "TimeoutError"},
     throws |-> FALSE, result |-> <<>>],
    [name |-> "TimeoutRecovery", handles |-> {"TimeoutError"},
     throws |-> FALSE, result |-> <<>>],
    [name |-> "SimplerAlgorithmFallback",
     handles |-> {"AlgorithmError", "TimeoutError", "MemoryError", "NumericalError"},
     throws |-> FALSE, result |-> <<>>]>>

\* RecoveryManager.recover: <<>> for null, <<grouping>> otherwise
RECURSIVE recover(_, _)
recover(strategies, error) ==
  IF strategies = <<>> THEN <<>>
  ELSE IF error \in Head(strategies).handles /\ ~Head(strategies).throws
            /\ Head(strategies).result # <<>>
  THEN <<[Head(strategies).result[1] EXCEPT
            !.methodUsed = <<@, "recovered via", Head(strategies).name>>]>>
  ELSE recover(Tail(strategies), error)

\* the names of the strategies whose recover method the loop of
\* RecoveryManager.recover calls, in the order of the calls
RECURSIVE recoverCalls(_, _)
recoverCalls(strategies, error) ==
  IF strategies = <<>> THEN <<>>
  ELSE IF error \notin Head(strategies).handles
  THEN recoverCalls(Tail(strategies), error)
  ELSE IF ~Head(strategies).throws /\ Head(strategies).result # <<>>
  THEN <<Head(strategies).name>>
  ELSE <<Head(strategies).name>> \o recoverCalls(Tail(strategies), error)

(***************************************************************************)
(* Performance history (performanceHistory.ts).  An entry holds algorithm, *)
(* problemSize, groups, groupSize, executionTimeMs, success and weight,    *)
(* the recency weight exp(-ageHours / 24) at the time of the query: 1 for  *)
(* an entry recorded in the same millisecond, 0 for one old enough for     *)
(* the exponential to underflow.  Averages are exact rationals.            *)
(***************************************************************************)
\* getRecommendations: the recommended algorithms with their confidence as
\* a numerator over 20 * 2^Len(history)
getRecommendations(history, problemSize, groups, groupSize, timeBudgetMs) ==
  LET Dist(a, b) == IF a >= b THEN a - b ELSE b - a
      Larger(a, b) == IF a >= b THEN a ELSE b
      Smaller(a, b) == IF a <= b THEN a ELSE b
      Similar(e) ==
        /\ 10 * Dist(e.problemSize, problemSize) <= Larger(50, problemSize)
        /\ 5 * Dist(e.groups, groups) <= Larger(5, groups)
        /\ 5 * Dist(e.groupSize, groupSize) <= Larger(5, groupSize)
      similar == SelectSeq(history, Similar)
      RECURSIVE pow2(_)
      pow2(n) == IF n = 0 THEN 1 ELSE 2 * pow2(n - 1)
      RECURSIVE avg(_, _)
      \* x1, then (avg + x) / 2 for each further value: the numerator over
      \* 2^(k - 1) after the first k values
      avg(xs, k) ==
        IF k = 1 THEN xs[1]
        ELSE avg(xs, k - 1) + xs[k] * pow2(k - 2)
      Of(alg) == LET Is(e) == e.algorithm = alg IN SelectSeq(similar, Is)
      Stats(alg) ==
        LET es  == Of(alg)
            n   == Len(es)
            den == pow2(n - 1)
        IN  [count   |-> n,
             den     |-> den,
             time    |-> avg([k \in 1..n |-> es[k].executionTimeMs], n),
             success |-> avg([k \in 1..n |-> IF es[k].success THEN 1 ELSE 0], n),
             recent  |-> avg([k \in 1..n |-> IF es[k].success THEN es[k].weight ELSE 0], n)]
      Kept(alg) ==
        LET s == Stats(alg)
        IN  /\ ~(10 * s.success < 3 * s.den)
            /\ ~(timeBudgetMs # 0 /\ 2 * s.time > 3 * timeBudgetMs * s.den)
      Confidence(alg) ==
        LET s == Stats(alg)
        IN  (Smaller(8, s.count) * s.den + Smaller(6 * s.den, 10 * s.recent))
              * (pow2(Len(history)) \div s.den)
  IN  IF history = <<>> \/ similar = <<>> THEN {}
      ELSE {[algorithm |-> alg, confidence |-> Confidence(alg)] :
              alg \in {a \in {similar[k].algorithm : k \in 1..Len(similar)} : Kept(a)}}

\* prioritizeByHistory: the first candidate stays, the others are sorted by
\* the confidence of their recommendation (0 without one); an empty
\* candidate list becomes [undefined] when there are recommendations
prioritizeByHistory(candidates, recs) ==
  IF recs = {} THEN candidates
  ELSE IF candidates = <<>> THEN <<"undefined">>
  ELSE LET rest  == Tail(candidates)
           Score(a) == IF \E r \in recs : r.algorithm = a
                       THEN (CHOOSE r \in recs : r.algorithm = a).confidence ELSE 0
           pos   == SortDesc([k \in 1..Len(rest) |-> Score(rest[k])])
       IN  <<Head(candidates)>> \o [p \in 1..Len(rest) |-> rest[pos[p]]]

(***************************************************************************)
(* The orchestrator (index.ts).  A clock gives the readings of             *)
(* performance.now() that matter: cut is the number of candidates run      *)
(* before "elapsed > timeLimitMs" holds at the head of the candidate loop, *)
(* dpRows and btVisits say when the time checks inside dp and backtracking *)
(* first succeed (they run against perAlgoBudget).                         *)
(***************************************************************************)
SmallProblemItems == 12
MediumProblemItems == 60
MetaheuristicMinTimeMs == 300
DefaultTimeLimitMs == 30000
DefaultMaxIters == 1000

\* determineCandidateAlgorithms with allowPlaceholderAlgorithms = false, as
\* executeAutoStrategy always calls it
determineCandidateAlgorithms(problemSize, timeLimitMs) ==
  IF problemSize <= SmallProblemItems
  THEN <<"roundrobin", "dp", "backtracking", "lpt", "kk">>
  ELSE IF problemSize <= MediumProblemItems THEN <<"roundrobin", "lpt", "kk">>
  ELSE IF timeLimitMs >= MetaheuristicMinTimeMs
  THEN <<"roundrobin", "lpt", "kk", "metaheuristic">>
  ELSE <<"roundrobin", "lpt", "kk">>

\* the candidate list of executeAutoStrategy: disallowed filter, preferred
\* boost, history, selection strategy (lines 216-281)
autoCandidates(T, options, recs) ==
  LET Allowed(a) == a \notin options.disallowedAlgorithms
      base   == SelectSeq(determineCandidateAlgorithms(T, options.timeLimitMs), Allowed)
      ppos   == SortDesc([k \in 1..Len(base) |->
                            IF base[k] \in options.preferredAlgorithms THEN 1 ELSE 0])
      boosted == IF options.preferredAlgorithms = {} THEN base
                 ELSE [p \in 1..Len(base) |-> base[ppos[p]]]
      hist   == prioritizeByHistory(boosted, recs)
      Priority(a) ==
        IF options.selectionStrategy = "quality"
        THEN CASE a = "kk" -> 3
               [] a \in {"lpt", "dp"} -> 2
               [] a \in {"backtracking", "flow", "metaheuristic"} -> 1
               [] OTHER -> 0
        ELSE CASE a = "roundrobin" -> 3
               [] a \in {"lpt", "kk"} -> 2
               [] a = "flow" -> 1
               [] OTHER -> 0
      spos   == SortDesc([k \in 1..Len(hist) |-> Priority(hist[k])])
  IN  IF options.selectionStrategy \in {"quality", "speed"}
      THEN [p \in 1..Len(hist) |-> hist[spos[p]]]
      ELSE hist

\* executeAutoStrategy: the grouping it returns and the algorithms it ran
\* every solver name a caller can disallow
AllSolvers == {"roundrobin", "lpt", "kk", "dp", "backtracking", "flow", "metaheuristic"}

\* tryUpdateBest: a result replaces the best one only when strictly better
tryUpdateBest(r, best) ==
  IF best = <<>> \/ r[1].delta < best[1].delta THEN r ELSE best

\* a solver that threw yields nothing
resultOf(items, res) ==
  IF res.kind = "threw" THEN <<>>
  ELSE <<MkGrouping(items, res.groupsByIndex, res.iterations, res.method)>>

\* what the case of the switch yields: <<>> when it threw or did nothing
runCandidate(items, groups, groupSize, options, clock, algo) ==
  CASE algo = "roundrobin" -> <<roundRobin(items, groups, groupSize)>>
    [] algo = "lpt" ->
         <<lptPartition(items, groups, groupSize,
                        [useRefinement |-> TRUE,
                         maxRefinementIters |-> IF options.maxIters \div 5 >= 10
                                                THEN options.maxIters \div 5 ELSE 10])>>
    [] algo = "kk" -> <<kk(items, groups, groupSize)>>
    [] algo = "dp" -> resultOf(items, dp(items, groups, groupSize, clock.dpRows))
    [] algo = "backtracking" ->
         resultOf(items,
                  backtracking(items, groups, groupSize,
                               [maxIters |-> BtDefaultMaxIters,
                                maxRecursionDepth |-> IF options.isLargeProblem THEN 20 ELSE 50,
                                enablePruning |-> TRUE,
                                enableEarlyTermination |-> TRUE,
                                enableBoundCalculation |-> TRUE],
                               clock.btVisits))
    [] OTHER -> <<>>

RECURSIVE candidateLoop(_, _, _, _, _, _, _, _, _, _)
\* the candidate loop from candidate i on; the clock stops it after
\* clock.cut candidates; early is the result of a "return" inside the loop;
\* executed collects the solvers whose case of the switch was entered, and
\* trace what each of them yielded, in the order of execution
candidateLoop(items, groups, groupSize, options, clock, cands, i, best, executed, trace) ==
  IF i > Len(cands) \/ i > clock.cut
  THEN [best |-> best, early |-> <<>>, executed |-> executed, trace |-> trace]
  ELSE CHOOSE out \in
         {IF r # <<>> /\ cands[i] \in {"roundrobin", "lpt", "kk"}
                      /\ r[1].delta <= options.earlyStopDelta
          THEN [best |-> tryUpdateBest(r, best), early |-> r,
                executed |-> executed \cup ({cands[i]} \cap AllSolvers),
                trace |-> Append(trace, [algo |-> cands[i], result |-> r])]
          ELSE candidateLoop(items, groups, groupSize, options, clock, cands, i + 1,
                             IF r = <<>> THEN best ELSE tryUpdateBest(r, best),
                             executed \cup ({cands[i]} \cap AllSolvers),
                             Append(trace, [algo |-> cands[i], result |-> r])) :
            r \in {runCandidate(items, groups, groupSize, options, clock, cands[i])}} : TRUE

\* the pass without its refinement, and taken whatever the best so far
hybridUnguarded(items, groups, groupSize, options, best) ==
  <<lptPartition(items, groups, groupSize,
                 [useRefinement |-> FALSE, maxRefinementIters |-> 0])>>

\* the optional hybrid refinement: lpt with refinement, kept when strictly better
hybridRefine(items, groups, groupSize, options, best) ==
  tryUpdateBest(
    <<lptPartition(items, groups, groupSize,
                   [useRefinement |-> TRUE,
                    maxRefinementIters |->
                      IF options.hybrid.refineIters # <<>>
                      THEN (IF options.hybrid.refineIters[1] >= 5
                            THEN options.hybrid.refineIters[1] ELSE 5)
                      ELSE (IF options.maxIters \div 10 >= 5
                            THEN options.maxIters \div 10 ELSE 5)])>>,
    best)

\* what follows the candidate loop; before is the delta of bestResult when
\* the hybrid pass starts (<<>> when the pass does not run)
finishAuto(items, groups, groupSize, options, after) ==
  IF after.early # <<>>
  THEN [grouping |-> after.early[1], executed |-> after.executed, before |-> <<>>,
        trace |-> after.trace]
  ELSE IF options.hybrid.enable /\ after.best # <<>>
  THEN [grouping |-> hybridRefine(items, groups, groupSize, options, after.best)[1],
        executed |-> after.executed \cup {"lpt"},
        before   |-> <<after.best[1].delta>>, trace |-> after.trace]
  ELSE IF after.best # <<>>
  THEN [grouping |-> after.best[1], executed |-> after.executed, before |-> <<>>,
        trace |-> after.trace]
  ELSE [grouping |-> createGracefulDegradation(items, groups, groupSize),
        executed |-> after.executed, before |-> <<>>, trace |-> after.trace]

executeAutoStrategy(items, groups, groupSize, options, history, clock) ==
  finishAuto(items, groups, groupSize, options,
    candidateLoop(items, groups, groupSize, options, clock,
      autoCandidates(Len(items), options,
        getRecommendations(history, Len(items), groups, groupSize, options.timeLimitMs)),
      1, <<>>, {}, <<>>))

LargeItems == 50
LargeGroups == 10
LargeGroupSize == 20
VeryLargeItems == 100
VeryLargeGroups == 20
VeryLargeGroupSize == 50

\* the catch block that lets the error escape instead of recovering
rethrowAlgorithmError(items, groups, groupSize, executed) ==
  [kind |-> "threw", error |-> "AlgorithmError", executed |-> executed]

\* the catch block of partitionBalanced (lines 149-169): recovery, then
\* graceful degradation
onAlgorithmError(items, groups, groupSize, executed) ==
  LET recovered == recover(DefaultStrategies, "AlgorithmError")
  IN  [kind     |-> "returned",
       grouping |-> IF recovered # <<>> THEN recovered[1]
                    ELSE createGracefulDegradation(items, groups, groupSize),
       executed |-> executed]

\* partitionBalanced: what the call does (returned / threw), the grouping
\* it returns and the algorithms it ran
\* large problems: simpler settings; very large ones: round robin and lpt only
isLargeProblem(items, groups, groupSize) ==
  Len(items) > LargeItems \/ groups > LargeGroups \/ groupSize > LargeGroupSize

isVeryLargeProblem(items, groups, groupSize) ==
  Len(items) > VeryLargeItems \/ groups > VeryLargeGroups \/ groupSize > VeryLargeGroupSize

\* the switch over options.method; every method but the three direct ones
\* takes the auto strategy
runMethod(items, groups, groupSize, options, history, clock) ==
  CASE options.method = "roundrobin" ->
         [grouping |-> roundRobin(items, groups, groupSize), executed |-> {"roundrobin"},
          before |-> <<>>, trace |-> <<>>]
    [] options.method = "lpt" ->
         [grouping |-> lptPartition(items, groups, groupSize,
                         [useRefinement |-> ~isLargeProblem(items, groups, groupSize),
                          maxRefinementIters |-> options.maxIters \div 10]),
          executed |-> {"lpt"}, before |-> <<>>, trace |-> <<>>]
    [] options.method = "kk" ->
         [grouping |-> kk(items, groups, groupSize), executed |-> {"kk"}, before |-> <<>>,
          trace |-> <<>>]
    [] OTHER ->
         LET forced == isVeryLargeProblem(items, groups, groupSize)
                         /\ options.method = "auto"
         IN  executeAutoStrategy(items, groups, groupSize,
               [timeLimitMs          |-> options.timeLimitMs,
                maxIters             |-> options.maxIters,
                earlyStopDelta       |-> options.earlyStopDelta,
                preferredAlgorithms  |-> IF forced THEN {"roundrobin", "lpt"}
                                         ELSE options.preferredAlgorithms,
                disallowedAlgorithms |-> IF forced
                                         THEN {"dp", "backtracking", "metaheuristic"}
                                         ELSE options.disallowedAlgorithms,
                selectionStrategy    |-> options.selectionStrategy,
                hybrid               |-> options.hybrid,
                isLargeProblem       |-> isLargeProblem(items, groups, groupSize)],
               history, clock)

\* the final validation and evaluation of the result r of the switch; the
\* evaluation runs on a fresh copy of the items, so on an empty cache bucket
finalize(items, groups, groupSize, r) ==
  IF validateGrouping(items, r.grouping.groupsByIndex, groupSize)
  THEN LET large == isLargeProblem(items, groups, groupSize)
           ev == evaluateGrouping(items, <<>>, r.grouping.groupsByIndex,
                   [maxCacheItems     |-> IF large THEN 500 ELSE 1000,
                    maxCacheGroups    |-> IF large THEN 25 ELSE 50,
                    maxCacheGroupSize |-> IF large THEN 50 ELSE 100]).out
       IN  [kind     |-> "returned",
            grouping |-> [r.grouping EXCEPT !.groupSums = ev.groupSums,
                                            !.delta = ev.delta],
            executed |-> r.executed,
            before   |-> r.before,
            trace    |-> r.trace]
  ELSE LET caught == onAlgorithmError(items, groups, groupSize, r.executed)
       IN  IF caught.kind = "returned"
           THEN [kind |-> "returned", grouping |-> caught.grouping,
                 executed |-> caught.executed, before |-> r.before,
                 trace |-> r.trace]
           ELSE [kind |-> "threw", error |-> caught.error,
                 executed |-> caught.executed, before |-> r.before,
                 trace |-> r.trace]

partitionBalanced(items, groups, groupSize, options, history, clock) ==
  IF ~validatePartitionInputs(items, groups, groupSize)
  THEN [kind |-> "threw", error |-> "ValidationError", executed |-> {}]
  ELSE CHOOSE out \in
         {finalize(items, groups, groupSize, r) :
            r \in {runMethod(items, groups, groupSize, options, history, clock)}} : TRUE

(***************************************************************************)
(* Orchestrator state machine: a caller holds one items array, calls       *)
(* partitionBalanced, may record a performance entry, and calls it again   *)
(* with the same arguments.                                                *)
(***************************************************************************)
MaxPbCap == 3
MaxHistory == 1

\* two groups of three, called with the hybrid pass enabled
HybridShape == <<2, 3>>

\* shapes of at most four items, the smallest very large problem, a
\* problem of two groups with more items than basic round robin takes,
\* and two groups of three
PbShapes ==
  {<<1, 1>>, <<2, 1>>, <<1, 2>>, <<3, 1>>, <<2, 2>>, <<VeryLargeGroups + 1, 1>>,
   <<2, (RoundRobinBasicMaxItems \div 2) + 1>>, HybridShape}

\* capacity arrays of a shape: every array over 1..MaxPbCap for the small
\* shapes, with one total above the limit of dp and one array that is one
\* item short; equal capacities but for one heavier item for the very large
\* one, capacities 3, 2, 1, ..., 1 for the two large groups, and for two
\* groups of three an array that the greedy placement of lpt leaves at
\* delta 3 and its refinement brings to 1
PbCapSeqs(sh) ==
  LET T == sh[1] * sh[2]
  IN  IF sh = HybridShape THEN {<<5, 5, 4, 4, 4, 1>>}
      ELSE IF sh[1] > VeryLargeGroups
      THEN {[i \in 1..T |-> IF i = 2 THEN 2 ELSE 1]}
      ELSE IF T > RoundRobinBasicMaxItems
      THEN {[i \in 1..T |-> IF i <= 2 THEN 4 - i ELSE 1]}
      ELSE [1..T -> 1..MaxPbCap]
             \cup {[i \in 1..T |-> IF i = 1 THEN DpMaxTotalSum ELSE 1]}
             \cup {[i \in 1..(T - 1) |-> 1]}

DefaultOptions ==
  [method               |-> "auto",
   timeLimitMs          |-> DefaultTimeLimitMs,
   seed                 |-> 0,
   maxIters             |-> DefaultMaxIters,
   earlyStopDelta       |-> 0,
   preferredAlgorithms  |-> {},
   disallowedAlgorithms |-> {},
   selectionStrategy    |-> "none",
   hybrid               |-> [enable |-> FALSE, refineIters |-> <<>>]]

\* the option sets a caller passes (normalizeOptions fills the defaults)
PbOptions ==
  {[DefaultOptions EXCEPT !.method = m] : m \in {"roundrobin", "lpt", "kk", "dp"}}
    \cup {[DefaultOptions EXCEPT !.timeLimitMs = t, !.hybrid.enable = h] :
            t \in {0, DefaultTimeLimitMs}, h \in BOOLEAN}
    \cup {[DefaultOptions EXCEPT !.disallowedAlgorithms = d, !.hybrid.enable = h] :
            d \in {AllSolvers, AllSolvers \ {"roundrobin"}, {"lpt"}}, h \in BOOLEAN}
    \cup {[DefaultOptions EXCEPT !.selectionStrategy = s] : s \in {"quality", "speed"}}
    \cup {[DefaultOptions EXCEPT !.preferredAlgorithms = {"kk"}, !.earlyStopDelta = 1,
                                 !.seed = 42]}
    \cup {[DefaultOptions EXCEPT !.maxIters = 1]}
    \cup {[DefaultOptions EXCEPT !.preferredAlgorithms = {"kk"}, !.hybrid.enable = TRUE]}
    \cup {[DefaultOptions EXCEPT !.disallowedAlgorithms = {"roundrobin"}]}

\* the very large shape is called with the default options, with every
\* solver disallowed, and with two direct methods; the two large groups
\* with method roundrobin; the two groups of three with the hybrid pass
OptionsOf(sh) ==
  IF sh[1] > VeryLargeGroups
  THEN {o \in PbOptions :
          \/ o = DefaultOptions
          \/ o.disallowedAlgorithms = AllSolvers
          \/ o.method \in {"roundrobin", "kk"}}
  ELSE IF sh[1] * sh[2] > RoundRobinBasicMaxItems
  THEN {o \in PbOptions : o.method = "roundrobin"}
  ELSE IF sh = HybridShape
  THEN {o \in PbOptions : o.method = "auto" /\ o.hybrid.enable}
  ELSE PbOptions

\* clocks: every cut of the candidate loop with solvers that finish in
\* time, and a full loop with dp or backtracking running out of time
PbClocks ==
  [cut : 0..5, dpRows : {DpMaxItems}, btVisits : {BtDefaultMaxIters}]
    \cup [cut : {5}, dpRows : {1}, btVisits : {1, 4}]

FullClock == [cut |-> 5, dpRows |-> DpMaxItems, btVisits |-> BtDefaultMaxIters]

\* the direct methods never read the clock; the calls that restrict or
\* reorder the candidates run the full loop or stop after one candidate
ClocksOf(options) ==
  IF options.method \in {"roundrobin", "lpt", "kk"} THEN {FullClock}
  ELSE IF options.disallowedAlgorithms = {} /\ options.preferredAlgorithms = {}
            /\ options.selectionStrategy = "none"
  THEN PbClocks
  ELSE {FullClock, [FullClock EXCEPT !.cut = 1]}

\* entries a caller records for problems of the shape sh
PbEntries(sh) ==
  [algorithm : {"kk"}, problemSize : {sh[1] * sh[2]}, groups : {sh[1]},
   groupSize : {sh[2]}, executionTimeMs : {1}, success : {TRUE}, weight : {1}]

PbInit ==
  /\ pbShape \in PbShapes
  /\ pbItems \in {MkItems(c) : c \in PbCapSeqs(pbShape)}
  /\ pbHistory = <<>>
  /\ pbArg = DefaultOptions
  /\ pbOut = [kind |-> "none"]
  /\ pbPrev = [kind |-> "none"]
  /\ pbCalls = 0

\* partitionBalanced(items, groups, groupSize, options)
PbCall ==
  /\ pbCalls = 0
  /\ \E options \in OptionsOf(pbShape) : \E clock \in ClocksOf(options) :
       /\ pbArg' = options
       /\ pbOut' = partitionBalanced(pbItems, pbShape[1], pbShape[2], options,
                                     pbHistory, clock)
  /\ pbCalls' = 1
  /\ UNCHANGED <<pbItems, pbShape, pbHistory, pbPrev, evVars, flVars, kkVars, lrVars, rmVars, svVars>>

\* the same call once more, with solvers that finish in time
PbRepeat ==
  /\ pbCalls = 1
  /\ pbPrev' = pbOut
  /\ pbOut' = partitionBalanced(pbItems, pbShape[1], pbShape[2], pbArg,
                                pbHistory, FullClock)
  /\ pbCalls' = 2
  /\ UNCHANGED <<pbItems, pbShape, pbHistory, pbArg, evVars, flVars, kkVars, lrVars, rmVars, svVars>>

\* globalPerformanceHistoryTracker.addEntry(entry), between the two calls
PbAddEntry ==
  /\ pbCalls = 1
  /\ Len(pbHistory) < MaxHistory
  /\ \E entry \in PbEntries(pbShape) : pbHistory' = Append(pbHistory, entry)
  /\ UNCHANGED <<pbItems, pbShape, pbArg, pbOut, pbPrev, pbCalls,
                 evVars, flVars, kkVars, lrVars, rmVars, svVars>>

PbNext == PbCall \/ PbRepeat \/ PbAddEntry

PbIdle ==
  /\ pbItems = <<>>
  /\ pbShape = <<0, 0>>
  /\ pbHistory = <<>>
  /\ pbArg = DefaultOptions
  /\ pbOut = [kind |-> "none"]
  /\ pbPrev = [kind |-> "none"]
  /\ pbCalls = 2

(***************************************************************************)
(* RecoveryManager state machine: a caller constructs a manager, adds and  *)
(* removes custom strategies and calls recover.                            *)
(***************************************************************************)
MaxCustomStrategies == 2

ErrorClasses ==
  {"AlgorithmError", "TimeoutError", "MemoryError", "NumericalError", "Error"}

\* custom strategies: canHandle accepts every error or timeouts only;
\* recover returns null, returns a grouping or throws
CustomStrategies ==
  [name : {"First", "Second"}, handles : {ErrorClasses, {"TimeoutError"}},
   throws : {FALSE}, result : {<<>>, <<[methodUsed |-> "custom"]>>}]
    \cup [name : {"First", "Second"}, handles : {ErrorClasses},
          throws : {TRUE}, result : {<<>>}]

StrategyNames(strategies) == [i \in 1..Len(strategies) |-> strategies[i].name]

\* new RecoveryManager()
RmInit ==
  /\ rmStrategies = DefaultStrategies
  /\ rmRegistered = StrategyNames(DefaultStrategies)
  /\ rmAttempted = <<>>
  /\ rmOut = [kind |-> "none"]

\* addStrategy(strategy): this.strategies.unshift(strategy)
RmAddStrategy ==
  /\ Len(rmStrategies) < Len(DefaultStrategies) + MaxCustomStrategies
  /\ \E strategy \in CustomStrategies :
       /\ \A i \in 1..Len(rmRegistered) : rmRegistered[i] # strategy.name
       /\ rmStrategies' = <<strategy>> \o rmStrategies
       /\ rmRegistered' = Append(rmRegistered, strategy.name)
  /\ UNCHANGED <<rmAttempted, rmOut, evVars, flVars, kkVars, lrVars, pbVars, svVars>>

\* removeStrategy(name): the strategies with another name stay, in order
RmRemoveStrategy ==
  /\ \E name \in Range(rmRegistered) :
       /\ rmStrategies' = SelectSeq(rmStrategies, LAMBDA st : st.name # name)
       /\ rmRegistered' = SelectSeq(rmRegistered, LAMBDA n : n # name)
  /\ UNCHANGED <<rmAttempted, rmOut, evVars, flVars, kkVars, lrVars, pbVars, svVars>>

\* recover(items, groups, groupSize, options, error)
RmRecover ==
  /\ \E error \in ErrorClasses :
       /\ rmAttempted' = recoverCalls(rmStrategies, error)
       /\ rmOut' = [kind |-> "returned", error |-> error,
                    value |-> recover(rmStrategies, error)]
  /\ UNCHANGED <<rmStrategies, rmRegistered, evVars, flVars, kkVars, lrVars, pbVars, svVars>>

RmNext == RmAddStrategy \/ RmRemoveStrategy \/ RmRecover

RmIdle ==
  /\ rmStrategies = <<>>
  /\ rmRegistered = <<>>
  /\ rmAttempted = <<>>
  /\ rmOut = [kind |-> "none"]

(***************************************************************************)
(* Metaheuristics (algorithms/metaheuristic.ts): genetic algorithm,        *)
(* simulated annealing and tabu search over solutions of N groups of M     *)
(* indices, driven by a linear congruential generator.                     *)
(***************************************************************************)
\* what reading past the end of an array yields
Undefined == -1

\* rand() < rate for a rate num / den
RandBelow(s, rate) == RandFloor(s, rate[2]) < rate[1]

\* arr[i] and "arr[i] = v" of a JavaScript array, i from 0
At(arr, i) == IF i < Len(arr) THEN arr[i + 1] ELSE Undefined

Put(arr, i, v) ==
  IF i < Len(arr) THEN [Array(arr) EXCEPT ![i + 1] = v]
  ELSE Array(arr) \o Array([k \in 1..(i - Len(arr)) |-> Undefined]) \o <<v>>

\* [arr[i], arr[j]] = [arr[j], arr[i]]
SwapAt(arr, i, j) ==
  CHOOSE out \in {Put(first, j, At(arr, i)) : first \in {Put(arr, i, At(arr, j))}} : TRUE

RECURSIVE shuffle(_, _, _)
\* the Fisher-Yates loop from position i down to 1
shuffle(rand, arr, i) ==
  IF i <= 0 THEN [rand |-> rand, arr |-> arr]
  ELSE CHOOSE out \in
         {shuffle(r, SwapAt(arr, i, RandFloor(r, i + 1)), i - 1) :
            r \in {LcgNext(rand)}} : TRUE

\* generateRandomSolution: position i of the shuffled indices goes to group
\* i mod N
generateRandomSolution(rand, N, M) ==
  LET sh == shuffle(rand, Array([i \in 1..(N * M) |-> i - 1]), N * M - 1)
  IN  [rand     |-> sh.rand,
       solution |-> Arrays([g \in 1..N |-> [k \in 1..M |-> sh.arr[(k - 1) * N + g]]])]

\* calculateFitness throws on an index that is no item
Evaluable(solution) ==
  \A g \in 1..Len(solution) : \A k \in 1..Len(solution[g]) : solution[g][k] # Undefined

\* calculateFitness: 1 / (1 + delta) as the fraction <<1, 1 + delta>>
calculateFitness(items, solution) == <<1, 1 + DeltaOf(GroupSumsOf(items, solution))>>

FitnessGreater(a, b) == a[1] * b[2] > b[1] * a[2]

\* generateSwapNeighbor, and the swap of mutate and generateNeighbor:
\* a copy with [s[g1][i1], s[g2][i2]] = [s[g2][i2], s[g1][i1]]; reading
\* an element of a group that does not exist throws
SwapThrows(solution, g1, g2) == g1 >= Len(solution) \/ g2 >= Len(solution)

generateSwapNeighbor(solution, g1, i1, g2, i2) ==
  CHOOSE out \in
    {[Arrays(first) EXCEPT ![g2 + 1] = Put(first[g2 + 1], i2, At(solution[g1 + 1], i1))] :
       first \in {[Arrays(solution) EXCEPT
                     ![g1 + 1] = Put(solution[g1 + 1], i1, At(solution[g2 + 1], i2))]}} : TRUE

\* mutate / generateNeighbor: two draws for the groups and, when they
\* differ, two for the positions
mutate(rand, solution, N, M) ==
  LET r1 == LcgNext(rand)
      r2 == LcgNext(r1)
      r3 == LcgNext(r2)
      r4 == LcgNext(r3)
      g1 == RandFloor(r1, N)
      g2 == RandFloor(r2, N)
  IN  IF g1 = g2 THEN [rand |-> r2, solution |-> solution, threw |-> FALSE]
      ELSE IF SwapThrows(solution, g1, g2)
      THEN [rand |-> r4, solution |-> solution, threw |-> TRUE]
      ELSE [rand |-> r4, threw |-> FALSE,
            solution |-> generateSwapNeighbor(solution, g1, RandFloor(r3, M),
                                              g2, RandFloor(r4, M))]

RECURSIVE crossoverPick(_, _, _, _, _, _, _)
\* the uniform crossover from slot (g, i) on: child and the rand state
crossoverPick(rand, parent1, parent2, N, M, slot, child) ==
  IF slot >= N * M THEN [rand |-> rand, child |-> child]
  ELSE CHOOSE out \in
         {LET g    == slot \div M
              item == IF RandBelow(r, <<1, 2>>)
                      THEN At(parent1[g + 1], slot % M)
                      ELSE At(parent2[g + 1], slot % M)
          IN  crossoverPick(r, parent1, parent2, N, M, slot + 1,
                IF item \in Range(Flatten(child)) THEN child
                ELSE [Arrays(child) EXCEPT ![g + 1] = Append(@, item)]) :
            r \in {LcgNext(rand)}} : TRUE

RECURSIVE crossoverFill(_, _, _, _, _)
\* the unused items, ascending, each into the first group below M
crossoverFill(child, N, M, i, used) ==
  IF i >= N * M THEN child
  ELSE IF i \in used \/ \A g \in 1..N : Len(child[g]) >= M
  THEN crossoverFill(child, N, M, i + 1, used)
  ELSE CHOOSE out \in
         {crossoverFill(next, N, M, i + 1, used) :
            next \in {LET g == CHOOSE g \in 1..N :
                                 /\ Len(child[g]) < M
                                 /\ \A h \in 1..(g - 1) : Len(child[h]) >= M
                      IN  [Arrays(child) EXCEPT ![g] = Append(@, i)]}} : TRUE

crossover(rand, parent1, parent2, N, M) ==
  LET picked == crossoverPick(rand, parent1, parent2, N, M, 0,
                              Array([g \in 1..N |-> <<>>]))
  IN  [rand  |-> picked.rand,
       child |-> crossoverFill(picked.child, N, M, 0, Range(Flatten(picked.child)))]

RECURSIVE randomSolutions(_, _, _, _, _)
\* "population[i] = generateRandomSolution()" for count more solutions
randomSolutions(rand, N, M, count, acc) ==
  IF count <= 0 THEN [rand |-> rand, list |-> acc]
  ELSE CHOOSE out \in
         {randomSolutions(s.rand, N, M, count - 1, Append(acc, s.solution)) :
            s \in {generateRandomSolution(rand, N, M)}} : TRUE

RECURSIVE evaluateAll(_, _, _, _)
\* the fitness loop of a generation: the best so far is replaced by the
\* first solution with a strictly greater fitness, and so on
evaluateAll(items, population, i, best) ==
  IF i > Len(population) THEN best
  ELSE CHOOSE out \in
         {evaluateAll(items, population, i + 1,
                      IF FitnessGreater(f, best.fitness)
                      THEN [solution |-> population[i], fitness |-> f] ELSE best) :
            f \in {calculateFitness(items, population[i])}} : TRUE

RECURSIVE sortByFitness(_, _, _)
\* fitnessScores.sort((a, b) => b.fitness - a.fitness): a stable sort
sortByFitness(items, population, rest) ==
  IF rest = {} THEN <<>>
  ELSE LET better(i, j) ==
             \/ FitnessGreater(calculateFitness(items, population[i]),
                               calculateFitness(items, population[j]))
             \/ /\ calculateFitness(items, population[i])
                     = calculateFitness(items, population[j])
                /\ i < j
           first == CHOOSE i \in rest : \A j \in rest \ {i} : better(i, j)
       IN  <<population[first]>> \o sortByFitness(items, population, rest \ {first})

\* one new solution of a generation: crossover or copy, then mutation
breedOne(S, sorted, N, M, options) ==
  LET r1    == LcgNext(S.rand)
      cross == RandBelow(r1, options.crossoverRate)
      r2    == LcgNext(r1)
      r3    == LcgNext(r2)
      a     == RandFloor(r2, options.eliteSize)
      b     == RandFloor(r3, options.eliteSize)
      k     == RandFloor(r2, options.populationSize)
      fails == IF cross THEN a >= Len(sorted) \/ b >= Len(sorted) ELSE k >= Len(sorted)
  IN  IF fails THEN [S EXCEPT !.threw = TRUE]
      ELSE CHOOSE out \in
        {LET rm == LcgNext(made.rand)
         IN  IF ~RandBelow(rm, options.mutationRate)
             THEN [rand |-> rm, newPopulation |-> Append(S.newPopulation, made.solution),
                   children |-> S.children \cup made.children,
                   mutated |-> S.mutated, threw |-> FALSE]
             ELSE CHOOSE res \in
               {[rand |-> mu.rand,
                 newPopulation |-> Append(S.newPopulation, mu.solution),
                 children |-> S.children \cup made.children,
                 mutated |-> IF mu.threw THEN S.mutated
                             ELSE S.mutated \cup {mu.solution},
                 threw |-> mu.threw] :
                  mu \in {mutate(rm, made.solution, N, M)}} : TRUE :
           made \in {IF cross
                     THEN CHOOSE m \in
                            {[rand |-> c.rand, solution |-> c.child, children |-> {c.child}] :
                               c \in {crossover(r3, sorted[a + 1], sorted[b + 1], N, M)}} : TRUE
                     ELSE [rand |-> r2, solution |-> sorted[k + 1], children |-> {}]}} : TRUE

RECURSIVE breed(_, _, _, _, _, _)
\* "for (let i = eliteSize; i < populationSize; i++)"
breed(S, sorted, N, M, options, i) ==
  IF i >= options.populationSize \/ S.threw THEN S
  ELSE CHOOSE out \in
         {breed(next, sorted, N, M, options, i + 1) :
            next \in {breedOne(S, sorted, N, M, options)}} : TRUE

RECURSIVE generations(_, _, _, _, _, _)
\* the generation loop of geneticAlgorithm; the clock passes the time limit
\* at the check of iteration clock.visits + 1
generations(items, N, M, options, clock, S) ==
  IF S.threw \/ S.iterations >= options.maxIters \/ S.iterations > clock.visits
  THEN S
  ELSE IF S.iterations + 1 > clock.visits
  THEN [S EXCEPT !.iterations = @ + 1]
  ELSE IF \E i \in 1..Len(S.population) : ~Evaluable(S.population[i])
  THEN [S EXCEPT !.iterations = @ + 1, !.threw = TRUE]
  ELSE IF options.eliteSize > options.populationSize
  THEN [S EXCEPT !.iterations = @ + 1, !.threw = TRUE]
  ELSE CHOOSE out \in
    {generations(items, N, M, options, clock,
       [rand |-> bred.rand, population |-> bred.newPopulation,
        best |-> evaluateAll(items, S.population, 1, S.best),
        iterations |-> S.iterations + 1,
        children |-> bred.children, mutated |-> bred.mutated, threw |-> bred.threw]) :
       bred \in
         {breed([rand |-> S.rand,
                 newPopulation |-> SubSeq(sorted, 1, options.eliteSize),
                 children |-> S.children, mutated |-> S.mutated, threw |-> FALSE],
                sorted, N, M, options, options.eliteSize) :
            sorted \in {sortByFitness(items, S.population, 1..Len(S.population))}}} : TRUE

\* what the call yields: the result object, or the TypeError thrown on the
\* way; children and mutated are the solutions that crossover and mutate
\* returned
MhResult(items, S, method) ==
  IF S.threw
  THEN [kind |-> "threw", error |-> "TypeError",
        children |-> S.children, mutated |-> S.mutated]
  ELSE [kind |-> "returned", groupsByIndex |-> S.best.solution,
        groupSums |-> GroupSumsOf(items, S.best.solution),
        iterations |-> S.iterations, method |-> method,
        children |-> S.children, mutated |-> S.mutated]

geneticAlgorithm(items, N, M, options, clock) ==
  LET init == randomSolutions(options.seed, N, M, options.populationSize, <<>>)
      S0   == [rand |-> init.rand, population |-> init.list,
               best |-> [solution |-> init.list[1], fitness |-> <<0, 1>>],
               iterations |-> 0, children |-> {}, mutated |-> {}, threw |-> FALSE]
  IN  IF ~Evaluable(init.list[1])
      THEN MhResult(items, [S0 EXCEPT !.threw = TRUE], "metaheuristic-genetic")
      ELSE MhResult(items,
             generations(items, N, M, options, clock,
               [S0 EXCEPT !.best.fitness = calculateFitness(items, init.list[1])]),
             "metaheuristic-genetic")

RECURSIVE annealing(_, _, _, _, _, _)
\* the loop of simulatedAnnealing. The neighbour is accepted when it is
\* fitter; when it is as fit, rand() < Math.exp(0) = 1; when it is less
\* fit, rand() < Math.exp(deltaFitness / temperature), a comparison the
\* clock decides (clock.acceptWorse) since the exponential is not computed
annealing(items, N, M, options, clock, S) ==
  IF S.threw \/ S.iterations >= options.maxIters \/ S.iterations > clock.visits
  THEN S
  ELSE IF S.iterations + 1 > clock.visits
  THEN [S EXCEPT !.iterations = @ + 1]
  ELSE CHOOSE out \in
    {IF nb.threw \/ ~Evaluable(nb.solution)
     THEN [S EXCEPT !.iterations = @ + 1, !.threw = TRUE]
     ELSE LET f      == calculateFitness(items, nb.solution)
              fitter == FitnessGreater(f, S.currentFitness)
              r      == LcgNext(nb.rand)
              accept == \/ fitter
                        \/ /\ RandBelow(r, <<1, 1>>)
                           /\ (f = S.currentFitness \/ clock.acceptWorse)
              better == accept /\ FitnessGreater(f, S.best.fitness)
          IN  annealing(items, N, M, options, clock,
                [rand           |-> IF fitter THEN nb.rand ELSE r,
                 current        |-> IF accept THEN nb.solution ELSE S.current,
                 currentFitness |-> IF accept THEN f ELSE S.currentFitness,
                 best           |-> IF better THEN [solution |-> nb.solution, fitness |-> f]
                                    ELSE S.best,
                 iterations     |-> S.iterations + 1,
                 children |-> {}, mutated |-> {}, threw |-> FALSE]) :
       nb \in {mutate(S.rand, S.current, N, M)}} : TRUE

\* the first solution of simulatedAnnealing and tabuSearch
FirstSolution(items, N, M, options) ==
  LET first == generateRandomSolution(options.seed, N, M)
  IN  [rand |-> first.rand, current |-> first.solution,
       currentFitness |-> IF Evaluable(first.solution)
                          THEN calculateFitness(items, first.solution) ELSE <<0, 1>>,
       threw |-> ~Evaluable(first.solution)]

simulatedAnnealing(items, N, M, options, clock) ==
  LET first == FirstSolution(items, N, M, options)
  IN  MhResult(items,
        annealing(items, N, M, options, clock,
          [rand |-> first.rand, current |-> first.current,
           currentFitness |-> first.currentFitness,
           best |-> [solution |-> first.current, fitness |-> first.currentFitness],
           iterations |-> 0, children |-> {}, mutated |-> {}, threw |-> first.threw]),
        "metaheuristic-simulated-annealing")

\* the moves <<g1, i1, g2, i2>> of the four nested loops of tabuSearch
TabuMoves(N, M) ==
  {<<g1, i1, g2, i2>> : g1 \in 0..(N - 1), i1 \in 0..(M - 1),
                        g2 \in 0..(N - 1), i2 \in 0..(M - 1)}

\* the loop order of the moves: g1, then g2, then i1, then i2
MoveOrder(move) == <<move[1], move[3], move[2], move[4]>>

\* tabuList.add(move), then the oldest move out when the list is too long
TabuAdd(tabuList, move, tabuSize) ==
  LET added == IF move \in Range(tabuList) THEN tabuList ELSE Append(tabuList, move)
  IN  IF Len(added) > tabuSize THEN Tail(added) ELSE added

RECURSIVE tabuLoop(_, _, _, _, _, _)
\* the loop of tabuSearch: the first move, in loop order, of the greatest
\* fitness among those that are not tabu or that beat the best fitness
tabuLoop(items, N, M, options, clock, S) ==
  IF S.iterations >= options.maxIters \/ S.iterations > clock.visits THEN S
  ELSE IF S.iterations + 1 > clock.visits
  THEN [S EXCEPT !.iterations = @ + 1]
  ELSE LET fit(move) == calculateFitness(items,
                          generateSwapNeighbor(S.current, move[1], move[2],
                                               move[3], move[4]))
           open == {move \in TabuMoves(N, M) :
                      /\ move[1] < move[3]
                      /\ \/ move \notin Range(S.tabuList)
                         \/ (options.aspirationCriteria
                               /\ FitnessGreater(fit(move), S.best.fitness))}
           top  == {move \in open : \A other \in open : ~FitnessGreater(fit(other), fit(move))}
       IN  IF open = {} THEN tabuLoop(items, N, M, options, clock,
                                      [S EXCEPT !.iterations = @ + 1])
           ELSE CHOOSE out \in
             {tabuLoop(items, N, M, options, clock,
                [current    |-> generateSwapNeighbor(S.current, move[1], move[2],
                                                     move[3], move[4]),
                 best       |-> IF FitnessGreater(fit(move), S.best.fitness)
                                THEN [solution |-> generateSwapNeighbor(
                                                     S.current, move[1], move[2],
                                                     move[3], move[4]),
                                      fitness |-> fit(move)]
                                ELSE S.best,
                 tabuList   |-> TabuAdd(S.tabuList, move, options.tabuSize),
                 iterations |-> S.iterations + 1,
                 children |-> {}, mutated |-> {}, threw |-> FALSE]) :
                move \in {CHOOSE m \in top :
                            \A other \in top \ {m} :
                              SeqLess(MoveOrder(m), MoveOrder(other))}} : TRUE

tabuSearch(items, N, M, options, clock) ==
  LET first == FirstSolution(items, N, M, options)
      S0    == [current |-> first.current,
                best |-> [solution |-> first.current, fitness |-> first.currentFitness],
                tabuList |-> <<>>, iterations |-> 0,
                children |-> {}, mutated |-> {}, threw |-> first.threw]
  IN  MhResult(items,
        IF first.threw THEN S0 ELSE tabuLoop(items, N, M, options, clock, S0),
        "metaheuristic-tabu-search")

\* metaheuristic: the shape check, then the solver of options.type
metaheuristic(items, groups, groupSize, options, clock) ==
  IF Len(items) # groups * groupSize
  THEN [kind |-> "threw", error |-> "Error", children |-> {}, mutated |-> {}]
  ELSE CASE options.type = "genetic" ->
              geneticAlgorithm(items, groups, groupSize, options, clock)
         [] options.type = "simulated-annealing" ->
              simulatedAnnealing(items, groups, groupSize, options, clock)
         [] options.type = "tabu-search" ->
              tabuSearch(items, groups, groupSize, options, clock)
         [] OTHER -> [kind |-> "threw", error |-> "Error", children |-> {}, mutated |-> {}]

(***************************************************************************)
(* Direct solver calls: a caller holds validated items (unique ids,        *)
(* positive capacities, groups * groupSize of them) and calls one solver.  *)
(***************************************************************************)
MaxSvCap == 3

SvShapes == {<<1, 1>>, <<2, 1>>, <<1, 2>>, <<3, 1>>, <<2, 2>>}

\* ids in index order, in reverse index order, and ids whose decimal
\* strings are not ordered as the numbers are (8, 9, 10, ...)
SvIds(T) ==
  {[i \in 1..T |-> i - 1], [i \in 1..T |-> T - i], [i \in 1..T |-> i + 7]}

SvItems(sh) ==
  {[i \in 1..(sh[1] * sh[2]) |-> [id |-> ids[i], capacity |-> caps[i]]] :
     ids \in SvIds(sh[1] * sh[2]), caps \in [1..(sh[1] * sh[2]) -> 1..MaxSvCap]}

SvInit ==
  /\ svShape \in SvShapes
  /\ svItems \in SvItems(svShape)
  /\ svCall = [solver |-> "none"]
  /\ svOut = [kind |-> "none"]

\* roundRobinPartition(items, groups, groupSize)
SvRoundRobin ==
  /\ svCall.solver = "none"
  /\ svCall' = [solver |-> "roundRobinPartition"]
  /\ svOut' = [kind |-> "ok",
               grouping |-> roundRobinPartition(svItems, svShape[1], svShape[2])]
  /\ UNCHANGED <<svItems, svShape, evVars, flVars, kkVars, lrVars, pbVars, rmVars>>

\* createGracefulDegradation(items, groups, groupSize, originalError)
SvDegrade ==
  /\ svCall.solver = "none"
  /\ svCall' = [solver |-> "createGracefulDegradation"]
  /\ svOut' = [kind |-> "ok",
               grouping |-> createGracefulDegradation(svItems, svShape[1], svShape[2])]
  /\ UNCHANGED <<svItems, svShape, evVars, flVars, kkVars, lrVars, pbVars, rmVars>>

\* the options of a backtracking call: iteration caps below and above the
\* size of the search, depth caps below and above the number of items
BtOptions ==
  [maxIters : {1, 3, BtDefaultMaxIters}, maxRecursionDepth : {1, BtDefaultMaxDepth},
   enablePruning : BOOLEAN, enableEarlyTermination : BOOLEAN,
   enableBoundCalculation : BOOLEAN]

\* the number of calls of backtrackRecursive before the time limit passes
BtVisits == {2, BtDefaultMaxIters}

\* backtracking(items, groups, groupSize, options)
SvBacktracking ==
  /\ svCall.solver = "none"
  /\ \E options \in BtOptions : \E visits \in BtVisits :
       /\ svCall' = [solver |-> "backtracking", options |-> options, visits |-> visits]
       /\ svOut' = backtracking(svItems, svShape[1], svShape[2], options, visits)
  /\ UNCHANGED <<svItems, svShape, evVars, flVars, kkVars, lrVars, pbVars, rmVars>>

MhDefaultMaxIters == 1000
MhDefaultTabuSize == 20

\* seeds: none given (123456789), 42, and the seeds whose first, eighth and
\* twelfth draw is 0xffffffff, as the two halves of seed >>> 0
MhSeeds ==
  {<<DefaultSeed \div Word16, DefaultSeed % Word16>>, <<0, 42>>, <<9973, 46880>>, <<21577, 29047>>,
   <<40150, 50835>>}

\* the options of a metaheuristic call: rates as fractions; small
\* populations, with the default rates and with every new solution a
\* mutated copy
MhOptions ==
  {[type |-> "genetic", seed |-> s, maxIters |-> mi,
    populationSize |-> pe[1], eliteSize |-> pe[2],
    mutationRate |-> rates[1], crossoverRate |-> rates[2],
    tabuSize |-> MhDefaultTabuSize, aspirationCriteria |-> TRUE] :
     s \in MhSeeds, mi \in {1, 2}, pe \in {<<2, 1>>, <<3, 2>>},
     rates \in {<<<<1, 10>>, <<4, 5>>>>, <<<<1, 1>>, <<0, 1>>>>}}
  \cup
  {[type |-> t, seed |-> s, maxIters |-> mi,
    populationSize |-> 2, eliteSize |-> 1,
    mutationRate |-> <<1, 10>>, crossoverRate |-> <<4, 5>>,
    tabuSize |-> ts, aspirationCriteria |-> asp] :
     t \in {"simulated-annealing", "tabu-search"}, s \in MhSeeds, mi \in {0, 3},
     ts \in {1, MhDefaultTabuSize}, asp \in BOOLEAN}

\* the time limit passes at the second check or never; a less fit
\* neighbour is accepted or not
MhClocks == [visits : {1, MhDefaultMaxIters}, acceptWorse : BOOLEAN]

\* only simulated annealing reads its tabu-free options and the acceptance
MhCalls ==
  {c \in MhOptions \X MhClocks :
     /\ c[1].type # "simulated-annealing" => ~c[2].acceptWorse
     /\ c[1].type = "simulated-annealing" =>
          c[1].tabuSize = MhDefaultTabuSize /\ c[1].aspirationCriteria}

\* metaheuristic(items, groups, groupSize, options)
SvMetaheuristic ==
  /\ svCall.solver = "none"
  /\ \E c \in MhCalls :
       /\ svCall' = [solver |-> "metaheuristic", options |-> c[1], clock |-> c[2]]
       /\ svOut' = metaheuristic(svItems, svShape[1], svShape[2], c[1], c[2])
  /\ UNCHANGED <<svItems, svShape, evVars, flVars, kkVars, lrVars, pbVars, rmVars>>

SvNext == SvRoundRobin \/ SvDegrade \/ SvBacktracking

SvIdle ==
  /\ svItems = <<>>
  /\ svShape = <<0, 0>>
  /\ svCall = [solver |-> "none"]
  /\ svOut = [kind |-> "none"]

FlInit ==
  /\ flShape \in Shapes
  /\ flItems \in {MkItems(c) : c \in CapSeqs(flShape[1] * flShape[2])}
  /\ flRest = SortedByCapacity(flItems, AllIndices(flItems))
  /\ flState = flowStart(flShape[1])
  /\ flPc = "loop"

FlowAssign ==
  /\ flPc = "loop"
  /\ flRest # <<>>
  /\ flState' = flowPlace(flItems, flState, flShape[2], Head(flRest))
  /\ flRest' = Tail(flRest)
  /\ UNCHANGED <<flItems, flShape, flPc, evVars, kkVars, lrVars, pbVars, rmVars, svVars>>

FlowReturn ==
  /\ flPc = "loop"
  /\ flRest = <<>>
  /\ flPc' = "done"
  /\ UNCHANGED <<flItems, flShape, flRest, flState, evVars, kkVars, lrVars, pbVars, rmVars, svVars>>

FlNext == FlowAssign \/ FlowReturn

FlIdle ==
  /\ flItems = <<>>
  /\ flShape = <<0, 0>>
  /\ flRest = <<>>
  /\ flState = flowStart(0)
  /\ flPc = "idle"

EvIdle ==
  /\ evItems = <<>>
  /\ evStore = [r \in ItemRefs |-> <<>>]
  /\ evArg = [ref |-> 0, grouping |-> <<>>, opts |-> DefaultEvalOpts]
  /\ evOut = [kind |-> "none"]
  /\ evCalls = MaxEvalCalls

InitEval == EvInit /\ FlIdle /\ KkIdle /\ LrIdle /\ PbIdle /\ RmIdle /\ SvIdle

SpecEval == InitEval /\ [][EvNext]_vars

InitFlow == FlInit /\ EvIdle /\ KkIdle /\ LrIdle /\ PbIdle /\ RmIdle /\ SvIdle

SpecFlow == InitFlow /\ [][FlNext]_vars

\* C3: evaluateGrouping returns what an uncached evaluation of the same
\* grouping returns (same groupSums, delta and stdev), whatever was evaluated
\* before on the same items array
C3_CacheTransparency ==
  (evOut.kind # "none"
     /\ \A i \in 1..Len(Flatten(evArg.grouping)) :
          ValidIndex(evItems, Flatten(evArg.grouping)[i]))
    => LET fresh == evaluateGroupingFastCPU(evItems, evArg.grouping)
       IN  /\ evOut.kind = "ok"
           /\ evOut.groupSums = fresh.groupSums
           /\ evOut.delta = fresh.delta
           /\ evOut.varNum * fresh.varDen = fresh.varNum * evOut.varDen

\* C9: whenever the grouping holds a negative index or an index >= items.length
\* the call raises an error, in every cache state
C9_InvalidIndexRejected ==
  (evOut.kind # "none"
     /\ \E i \in 1..Len(Flatten(evArg.grouping)) :
          ~ValidIndex(evItems, Flatten(evArg.grouping)[i]))
    => evOut.kind = "error"

InitKK == KkInit /\ EvIdle /\ FlIdle /\ LrIdle /\ PbIdle /\ RmIdle /\ SvIdle

SpecKK == InitKK /\ [][KkNext]_vars

\* C4: kk returns N groups of exactly M indices covering every index once,
\* also when the bisection loop was left before N sets existed
C4_KKValid ==
  kkPc = "done" => IsPartition(kkGroups, kkShape[1], kkShape[2])

InitRefine == LrInit /\ EvIdle /\ FlIdle /\ KkIdle /\ PbIdle /\ RmIdle /\ SvIdle

SpecRefine == InitRefine /\ [][LrNext]_vars

\* C5: flow returns N groups of exactly M indices covering every index once,
\* and no group ever holds more than M items during the assignment
C5_FlowValid ==
  /\ flPc = "done" => IsPartition(flState.groupsByIndex, flShape[1], flShape[2])
  /\ flPc \in {"loop", "done"} =>
       \A g \in 1..flShape[1] : Len(flState.groupsByIndex[g]) <= flShape[2]

\* C10: the grouping localRefine returns has a delta no larger than the delta
\* of the grouping it was given, for both strategies, every seed and cap
C10_RefineMonotone ==
  lrPc = "done" =>
    /\ DeltaOf(GroupSumsOf(lrItems, lrSt.groupsByIndex))
         <= DeltaOf(GroupSumsOf(lrItems, lrIn))
    /\ lrSt.groupSums = GroupSumsOf(lrItems, lrSt.groupsByIndex)

\* a stochastic run that applied a 2-2 swap and returned a smaller delta
C10_Witness ==
  /\ lrPc = "done"
  /\ lrOpts.strategy = "stochastic"
  /\ ~lrOpts.enable11
  /\ lrSt.improvements >= 1
  /\ DeltaOf(lrSt.groupSums) < DeltaOf(GroupSumsOf(lrItems, lrIn))

InitPartition == PbInit /\ EvIdle /\ FlIdle /\ KkIdle /\ LrIdle /\ RmIdle /\ SvIdle

SpecPartition == InitPartition /\ [][PbNext]_vars

\* C1: for every validated input and every option set, the groupsByIndex
\* partitionBalanced returns is a partition of [0, T) into N groups of M
C1_ReturnsPartition ==
  (pbCalls >= 1 /\ pbOut.kind = "returned") =>
    IsPartition(pbOut.grouping.groupsByIndex, pbShape[1], pbShape[2])

\* a direct solver returned a grouping that failed validateGrouping, and the
\* call returned the graceful degradation instead
C1_Witness ==
  /\ pbCalls >= 1
  /\ pbArg.method = "kk"
  /\ pbOut.kind = "returned"
  /\ pbOut.grouping.methodUsed = "graceful-degradation"
  /\ ~validateGrouping(pbItems, kk(pbItems, pbShape[1], pbShape[2]).groupsByIndex,
                       pbShape[2])

\* C2: for every validated input, partitionBalanced returns a Grouping and
\* never throws, whatever the clock and whichever solver fails
C2_NeverThrows ==
  (pbCalls >= 1 /\ validatePartitionInputs(pbItems, pbShape[1], pbShape[2]))
    => pbOut.kind = "returned"

\* the candidate loop ran no solver at all (the time was up at once), or
\* dp threw on a total above its limit, and the call still returned
C2_Witness ==
  /\ pbCalls >= 1
  /\ pbOut.kind = "returned"
  /\ pbArg.method = "auto"
  /\ \/ pbOut.executed = {}
     \/ /\ "dp" \in pbOut.executed
        /\ SumSeq([i \in 1..Len(pbItems) |-> pbItems[i].capacity]) > DpMaxTotalSum

\* C6: two calls with the same items, N, M and options return the same
\* groupsByIndex and the same delta, whatever the clock read and whatever
\* history was recorded between them
C6_Deterministic ==
  (pbCalls = 2 /\ pbPrev.kind = "returned" /\ pbOut.kind = "returned") =>
    /\ pbOut.grouping.groupsByIndex = pbPrev.grouping.groupsByIndex
    /\ pbOut.grouping.delta = pbPrev.grouping.delta

\* C7: in auto mode with every solver disallowed the call returns a valid
\* grouping tagged graceful-degradation that holds every item id once
C7_AllDisallowedDegrades ==
  (pbCalls >= 1 /\ pbArg.method = "auto" /\ AllSolvers \subseteq pbArg.disallowedAlgorithms
     /\ validatePartitionInputs(pbItems, pbShape[1], pbShape[2])) =>
    /\ pbOut.kind = "returned"
    /\ IsPartition(pbOut.grouping.groupsByIndex, pbShape[1], pbShape[2])
    /\ pbOut.grouping.methodUsed = "graceful-degradation"
    /\ \A i \in 1..Len(pbItems) :
         Cardinality({k \in 1..Len(Flatten(pbOut.grouping.groupsById)) :
                        Flatten(pbOut.grouping.groupsById)[k] = pbItems[i].id}) = 1

\* the solver a methodUsed tag names
SolverOfMethod(methodUsed) ==
  CASE methodUsed \in {"roundrobin", "roundrobin-optimized"} -> {"roundrobin"}
    [] methodUsed \in {"lpt", "lpt-refined"} -> {"lpt"}
    [] methodUsed = "kk" -> {"kk"}
    [] methodUsed \in {"dp-fallback", "dp-integer-scaled"} -> {"dp"}
    [] methodUsed \in {"backtracking", "backtracking-fallback"} -> {"backtracking"}
    [] OTHER -> {}

\* C8: in auto mode no algorithm of the caller's disallowedAlgorithms is
\* executed and methodUsed names none of them
C8_DisallowedNeverRun ==
  (pbCalls >= 1 /\ pbArg.method = "auto" /\ pbOut.kind = "returned") =>
    /\ pbOut.executed \cap pbArg.disallowedAlgorithms = {}
    /\ SolverOfMethod(pbOut.grouping.methodUsed) \cap pbArg.disallowedAlgorithms = {}

\* C11: with method roundrobin the item at position i of the order by
\* descending capacity (ties by stringified id) is in group i mod N, for
\* every input size
C11_RoundRobinCyclic ==
  (pbCalls >= 1 /\ pbArg.method = "roundrobin" /\ pbOut.kind = "returned")
    => pbOut.grouping.groupsByIndex = Cyclic(SortedItems(pbItems), pbShape[1])

InitRecovery == RmInit /\ EvIdle /\ FlIdle /\ KkIdle /\ LrIdle /\ PbIdle /\ SvIdle

SpecRecovery == InitRecovery /\ [][RmNext]_vars

\* position of a name in the registration order
RegisteredAt(name) == CHOOSE i \in 1..Len(rmRegistered) : rmRegistered[i] = name

\* C12: recover consults the strategies in registration order: of two
\* strategies it tries, the one registered earlier (in the constructor or by
\* addStrategy) is tried first
C12_RegistrationOrder ==
  \A i, j \in 1..Len(rmAttempted) :
     (i < j /\ rmAttempted[i] \in Range(rmRegistered)
            /\ rmAttempted[j] \in Range(rmRegistered))
       => RegisteredAt(rmAttempted[i]) < RegisteredAt(rmAttempted[j])

InitSolvers == SvInit /\ EvIdle /\ FlIdle /\ KkIdle /\ LrIdle /\ PbIdle /\ RmIdle

SpecSolvers == InitSolvers /\ [][SvNext]_vars

\* C13: for every validated input createGracefulDegradation builds the
\* groupsByIndex that basic round robin returns for the same items, N and M
C13_DegradationIsRoundRobin ==
  svCall.solver = "createGracefulDegradation"
    => svOut.grouping.groupsByIndex
         = roundRobinPartition(svItems, svShape[1], svShape[2]).groupsByIndex

\* a backtracking call that no guard truncates: the time limit, the
\* iteration cap and the depth cap are above what the search needs
BtUntruncated ==
  /\ svCall.solver = "backtracking"
  /\ svCall.visits = BtDefaultMaxIters
  /\ svCall.options.maxIters = BtDefaultMaxIters
  /\ svCall.options.maxRecursionDepth = BtDefaultMaxDepth

\* C14: when no guard truncates the search, the delta (max - min group sum)
\* of the grouping backtracking returns is the minimum over all partitions
\* of the items into N groups of M
C14_BacktrackingOptimal ==
  BtUntruncated =>
    \A f \in [1..Len(svItems) -> 1..svShape[1]] :
       (\A g \in 1..svShape[1] :
           Cardinality({i \in 1..Len(svItems) : f[i] = g}) = svShape[2])
         => DeltaOf(svOut.groupSums)
              <= DeltaOf([g \in 1..svShape[1] |->
                           SumSeq([i \in 1..Len(svItems) |->
                                     IF f[i] = g THEN svItems[i].capacity ELSE 0])])

\* C15: the iterations count backtracking reports never exceeds the
\* maxIters option of the call
C15_IterationsWithinMaxIters ==
  svCall.solver = "backtracking" => svOut.iterations <= svCall.options.maxIters

\* C19: truncated or not, backtracking returns without error N groups of M
\* indices that cover every item index exactly once
C19_BacktrackingPartition ==
  svCall.solver = "backtracking"
    => /\ svOut.kind = "ok"
       /\ IsPartition(svOut.groupsByIndex, svShape[1], svShape[2])

\* a truncated search that found no complete solution and fell back, on
\* items whose sorted order differs from their array order
C19_Witness ==
  /\ svCall.solver = "backtracking"
  /\ svOut.kind = "ok"
  /\ svOut.method = "backtracking-fallback"
  /\ svOut.iterations > svCall.options.maxIters
  /\ svShape = <<2, 2>>
  /\ svOut.groupsByIndex # <<<<0, 2>>, <<1, 3>>>>

\* C16: in auto mode the iterations value of the returned Grouping never
\* exceeds options.maxIters, whichever candidate produced the result
C16_AutoIterationsWithinMaxIters ==
  (pbCalls >= 1 /\ pbArg.method = "auto" /\ pbOut.kind = "returned"
     /\ "iterations" \in DOMAIN pbOut.grouping)
    => pbOut.grouping.iterations <= pbArg.maxIters

C18_MethodNamesSolver ==
  (pbCalls >= 1 /\ pbArg.method # "auto" /\ pbOut.kind = "returned") =>
    /\ pbOut.executed = {pbArg.method}
    /\ SolverOfMethod(pbOut.grouping.methodUsed) = {pbArg.method}

\* metaheuristic calls on items whose ids are their indices
InitMeta ==
  /\ svShape \in SvShapes
  /\ svItems \in {MkItems(c) : c \in [1..(svShape[1] * svShape[2]) -> 1..MaxSvCap]}
  /\ svCall = [solver |-> "none"]
  /\ svOut = [kind |-> "none"]
  /\ EvIdle /\ FlIdle /\ KkIdle /\ LrIdle /\ PbIdle /\ RmIdle

SpecMeta == InitMeta /\ [][SvMetaheuristic]_vars

\* C20: for each metaheuristic type, seed and budget the returned
\* groupsByIndex is a partition of the indices into N groups of M, and so
\* is every solution that crossover or mutate returned during the call
C20_MetaheuristicPartition ==
  svCall.solver = "metaheuristic" =>
    /\ svOut.kind = "returned"
         => IsPartition(svOut.groupsByIndex, svShape[1], svShape[2])
    /\ \A s \in svOut.children \cup svOut.mutated :
         IsPartition(s, svShape[1], svShape[2])

\* C21: when the auto strategy returns the result of a candidate, no
\* executed candidate had a lower delta, and none of the same delta was
\* executed before it
C21_LowestDeltaFirstFound ==
  (pbCalls >= 1 /\ pbArg.method = "auto" /\ pbOut.kind = "returned") =>
    LET trace   == pbOut.trace
        yielded == {k \in 1..Len(trace) : trace[k].result # <<>>}
        delta(k) == trace[k].result[1].delta
        from    == {k \in yielded :
                      /\ trace[k].result[1].groupsByIndex = pbOut.grouping.groupsByIndex
                      /\ trace[k].result[1].methodUsed = pbOut.grouping.methodUsed}
    IN  from # {} =>
          \E k \in from : \A j \in yielded :
            delta(j) > delta(k) \/ (delta(j) = delta(k) /\ k <= j)

\* C22: in the auto strategy a candidate whose delta is at most
\* earlyStopDelta is the last one executed, and its result is what the
\* strategy returns
C22_EarlyStopImmediate ==
  (pbCalls >= 1 /\ pbArg.method = "auto" /\ pbOut.kind = "returned") =>
    LET trace == pbOut.trace
    IN  \A k \in 1..Len(trace) :
          (trace[k].result # <<>> /\ trace[k].result[1].delta <= pbArg.earlyStopDelta)
            => /\ k = Len(trace)
               /\ pbOut.before = <<>>
               /\ pbOut.grouping.groupsByIndex = trace[k].result[1].groupsByIndex
               /\ pbOut.grouping.methodUsed = trace[k].result[1].methodUsed

\* C23: in auto mode, when an executed candidate yielded a valid grouping
\* of N groups of M, the call does not return the graceful-degradation
\* fallback
C23_FallbackOnlyWithoutResult ==
  (pbCalls >= 1 /\ pbArg.method = "auto" /\ pbOut.kind = "returned") =>
    ((\E k \in 1..Len(pbOut.trace) :
        /\ pbOut.trace[k].result # <<>>
        /\ IsPartition(pbOut.trace[k].result[1].groupsByIndex, pbShape[1], pbShape[2]))
       => pbOut.grouping.methodUsed # "graceful-degradation")

\* C24: in auto mode the candidates that run all belong to the set that
\* determineCandidateAlgorithms gives for the item count and the time
\* budget, less the algorithms the caller disallowed; a second call, whose
\* loop is neither cut by the clock nor left by an early return, runs
\* exactly that set
C24_CandidateSetBySizeAndBudget ==
  (pbCalls >= 1 /\ pbArg.method = "auto" /\ pbOut.kind = "returned") =>
    LET trace    == pbOut.trace
        ran      == {trace[k].algo : k \in 1..Len(trace)}
        bySize   == determineCandidateAlgorithms(Len(pbItems), pbArg.timeLimitMs)
        expected == {bySize[k] : k \in 1..Len(bySize)} \ pbArg.disallowedAlgorithms
        stopped  == /\ trace # <<>>
                    /\ trace[Len(trace)].algo \in {"roundrobin", "lpt", "kk"}
                    /\ trace[Len(trace)].result # <<>>
                    /\ trace[Len(trace)].result[1].delta <= pbArg.earlyStopDelta
    IN  /\ ran \subseteq expected
        /\ (pbCalls = 2 /\ ~stopped) => ran = expected

\* C25: when the dp candidate completes (method dp-integer-scaled), every
\* group of its result holds groupSize items of the input, named by their
\* indices in the items array, that stand at consecutive positions of the
\* capacity-sorted order, and groupSums are the sums of those items
C25_DpGroupsConsecutiveInSortedOrder ==
  (pbCalls >= 1 /\ pbOut.kind = "returned") =>
    \A k \in 1..Len(pbOut.trace) :
      LET entry == pbOut.trace[k]
      IN  (entry.algo = "dp" /\ entry.result # <<>>
             /\ entry.result[1].methodUsed = "dp-integer-scaled")
            => LET grouping == entry.result[1]
                   sorted   == SortedItems(pbItems)
                   Pos(idx) == CHOOSE p \in 1..Len(sorted) : sorted[p] = idx
               IN  \A g \in 1..Len(grouping.groupsByIndex) :
                     LET at == {Pos(idx) : idx \in Range(grouping.groupsByIndex[g])}
                     IN  /\ Len(grouping.groupsByIndex[g]) = pbShape[2]
                         /\ Cardinality(at) = pbShape[2]
                         /\ \A p \in at : \A q \in at : p - q < pbShape[2]
                         /\ grouping.groupSums[g]
                              = GroupSumOf(pbItems, grouping.groupsByIndex[g])

(***************************************************************************)
(* Direct calls of optimizedRoundRobinPartition, which roundRobin reaches  *)
(* only with more than 20 items.                                           *)
(***************************************************************************)
RrShapes == {<<2, 2>>, <<3, 2>>, <<3, 3>>}

\* every capacity array over 1..MaxSvCap for up to six items; for three
\* groups of three, four light items followed by five heavy ones
RrCapSeqs(sh) ==
  IF sh[1] * sh[2] <= 6 THEN [1..(sh[1] * sh[2]) -> 1..MaxSvCap]
  ELSE {low \o high : low \in [1..4 -> 1..2],
                      high \in [1..5 -> MaxSvCap..(MaxSvCap + 2)]}

InitRoundRobin ==
  /\ svShape \in RrShapes
  /\ svItems \in {MkItems(c) : c \in RrCapSeqs(svShape)}
  /\ svCall = [solver |-> "none"]
  /\ svOut = [kind |-> "none"]
  /\ EvIdle /\ FlIdle /\ KkIdle /\ LrIdle /\ PbIdle /\ RmIdle

\* optimizedRoundRobinPartition(items, groups, groupSize)
SvOptimizedRoundRobin ==
  /\ svCall.solver = "none"
  /\ svCall' = [solver |-> "optimizedRoundRobinPartition"]
  /\ svOut' = [kind |-> "ok",
               grouping |-> optimizedRoundRobinPartition(svItems, svShape[1], svShape[2])]
  /\ UNCHANGED <<svItems, svShape, evVars, flVars, kkVars, lrVars, pbVars, rmVars>>

SpecRoundRobin == InitRoundRobin /\ [][SvOptimizedRoundRobin]_vars

\* C26: optimizedRoundRobinPartition takes the items in capacity-descending
\* order and puts each into a group whose current sum is the smallest among
\* the groups that hold fewer than groupSize items at that moment
C26_OptimizedRoundRobinLeastLoaded ==
  svCall.solver = "optimizedRoundRobinPartition" =>
    LET groupsByIndex == svOut.grouping.groupsByIndex
        sorted   == SortedItems(svItems)
        Pos(idx) == CHOOSE p \in 1..Len(sorted) : sorted[p] = idx
        \* the items group g holds when the item at position p is placed
        Held(g, p) == {idx \in Range(groupsByIndex[g]) : Pos(idx) < p}
        SumAt(g, p) == SumSeq([q \in 1..(p - 1) |->
                                 IF sorted[q] \in Held(g, p)
                                 THEN CapOf(svItems, sorted[q]) ELSE 0])
        Open(p) == {g \in 1..svShape[1] : Cardinality(Held(g, p)) < svShape[2]}
    IN  \A g \in 1..svShape[1] : \A k \in 1..Len(groupsByIndex[g]) :
          LET p == Pos(groupsByIndex[g][k])
          IN  /\ k = Cardinality(Held(g, p)) + 1
              /\ g \in Open(p)
              /\ \A h \in Open(p) : SumAt(g, p) <= SumAt(h, p)

\* C27: every step of the repair pass of kk that moves an item from the
\* donor (the first set with more than groupSize items) to the receiver
\* (the first set with fewer) leaves a delta that no other item of the
\* donor would have undercut
C27_RepairMovesBestItem ==
  [][(kkPc = "repair" /\ kkPc' = "repair" /\ kkGroups' # kkGroups) =>
       LET n        == Len(kkGroups)
           donor    == FirstTrue([g \in 1..n |-> Len(kkGroups[g]) > kkShape[2]])
           receiver == FirstTrue([g \in 1..n |-> Len(kkGroups[g]) < kkShape[2]])
           sums     == GroupSumsOf(kkItems, kkGroups)
           After(i) == LET cap == CapOf(kkItems, kkGroups[donor + 1][i])
                       IN  DeltaOf([g \in 1..n |->
                                      IF g = donor + 1 THEN sums[g] - cap
                                      ELSE IF g = receiver + 1 THEN sums[g] + cap
                                      ELSE sums[g]])
       IN  \A i \in 1..Len(kkGroups[donor + 1]) :
             DeltaOf(GroupSumsOf(kkItems, kkGroups')) <= After(i)]_vars

\* a repair step has moved an item, and the next step again has a donor
\* whose items do not all lead to the same delta
C27_Witness ==
  /\ kkPc = "repair"
  /\ kkIters >= 1
  /\ LET n        == Len(kkGroups)
         donor    == FirstTrue([g \in 1..n |-> Len(kkGroups[g]) > kkShape[2]])
         receiver == FirstTrue([g \in 1..n |-> Len(kkGroups[g]) < kkShape[2]])
         sums     == GroupSumsOf(kkItems, kkGroups)
         After(i) == LET cap == CapOf(kkItems, kkGroups[donor + 1][i])
                     IN  DeltaOf([g \in 1..n |->
                                    IF g = donor + 1 THEN sums[g] - cap
                                    ELSE IF g = receiver + 1 THEN sums[g] + cap
                                    ELSE sums[g]])
     IN  /\ donor # -1 /\ receiver # -1
         /\ \E i \in 1..Len(kkGroups[donor + 1]) : \E j \in 1..Len(kkGroups[donor + 1]) :
              After(i) < After(j)

(***************************************************************************)
(* An EvaluationCache of its own (cache.ts): constructed with a maximum,   *)
(* then filled by set calls.  Keys are strings, written as sequences of    *)
(* character codes; evArg holds the configured maximum and the last call.  *)
(***************************************************************************)
EmptyKey == <<>>

MaxCacheSets == 12

\* the maxima a caller constructs the cache with
CacheSizes == {1, MinCacheEntries, MinCacheEntries + 1}

\* the constructor: maxEntriesPerItemsRef = Math.max(10, maxEntriesPerItemsRef)
maxEntriesPerItemsRef(configured) ==
  IF MinCacheEntries >= configured THEN MinCacheEntries ELSE configured

\* a key that the bucket does not hold
FreshKey(bucket) ==
  LET used == {bucket[i].key[1] : i \in {j \in 1..Len(bucket) : bucket[j].key # EmptyKey}}
  IN  <<1 + (IF used = {} THEN 0 ELSE CHOOSE k \in used : \A u \in used : u <= k)>>

\* the keys of the set calls: the empty string, a new key, the oldest key
CacheKeys(bucket) ==
  {EmptyKey, FreshKey(bucket)} \cup (IF bucket = <<>> THEN {} ELSE {bucket[1].key})

InitCache ==
  /\ evItems = <<>>
  /\ evStore = [r \in ItemRefs |-> <<>>]
  /\ \E configured \in CacheSizes : evArg = [configured |-> configured, op |-> "new"]
  /\ evOut = [kind |-> "none"]
  /\ evCalls = 0
  /\ FlIdle /\ KkIdle /\ LrIdle /\ PbIdle /\ RmIdle /\ SvIdle

\* cache.set(itemsRef, groupingKey, value)
EvCacheSet ==
  /\ evCalls < MaxCacheSets
  /\ \E ref \in ItemRefs : \E key \in CacheKeys(evStore[ref]) :
       /\ evStore' = [evStore EXCEPT ![ref] =
                        CacheSet(@, key, 0, maxEntriesPerItemsRef(evArg.configured),
                                 {EmptyKey})]
       /\ evArg' = [configured |-> evArg.configured, op |-> "set"]
  /\ evCalls' = evCalls + 1
  /\ UNCHANGED <<evItems, evOut, flVars, kkVars, lrVars, pbVars, rmVars, svVars>>

SpecCache == InitCache /\ [][EvCacheSet]_vars

\* C28: after any sequence of set calls no bucket of an EvaluationCache
\* holds more entries than the maximum the cache was constructed with
C28_CacheBounded ==
  \A ref \in ItemRefs : Len(evStore[ref]) <= evArg.configured

\* C29: every index the stochastic refinement draws as floor(rand() * n)
\* lies in 0..n-1: no attempt reads outside the groups, and the move the
\* next attempt draws from the generator names groups below the number of
\* groups and positions below the group size
C29_DrawnIndexInRange ==
  lrOpts.strategy = "stochastic" =>
    /\ lrPc # "threw"
    /\ (lrPc = "loop" /\ lrIters >= 1) =>
         \A kind \in {4, 6} :
           LET groups    == Len(lrSt.groupsByIndex)
               groupSize == Len(lrSt.groupsByIndex[1])
               mv        == DrawMove(LcgSeq(lrSt.rand, kind), kind, groups, groupSize)
           IN  /\ mv[1] \in 0..(groups - 1)
               /\ mv[2] \in 0..(groups - 1)
               /\ \A k \in 3..kind : mv[k] \in 0..(groupSize - 1)

(***************************************************************************)
(* backtrackRecursive step by step (algorithms/backtracking.ts), with      *)
(* enablePruning and enableEarlyTermination false, so that the guards of   *)
(* iterations, time and recursion depth decide every return before the     *)
(* loop.  currentSums holds JavaScript numbers: a double is written as the *)
(* natural number of its multiples of 2^-56, in four limbs of 15 bits,     *)
(* least significant first, and every sum is rounded to 53 significant     *)
(* bits, ties to even.                                                     *)
(***************************************************************************)
LimbBits == 15
LimbBase == 32768
MantissaBits == 53

DoubleZero == <<0, 0, 0, 0>>

\* 0.1, 0.2, 1 and 3 as doubles, in ascending order
DoubleValues ==
  <<<<6554, 13107, 26214, 204>>, <<13108, 26214, 19660, 409>>,
    <<0, 0, 0, 2048>>, <<0, 0, 0, 6144>>>>

RECURSIVE Pow2(_)
Pow2(n) == IF n = 0 THEN 1 ELSE 2 * Pow2(n - 1)

RECURSIVE BitsOf(_)
BitsOf(n) == IF n = 0 THEN 0 ELSE 1 + BitsOf(n \div 2)

\* the number of significant bits of a
BitLength(a) ==
  LET used == {i \in 1..Len(a) : a[i] # 0}
      top  == CHOOSE i \in used : \A j \in used : j <= i
  IN  IF used = {} THEN 0 ELSE LimbBits * (top - 1) + BitsOf(a[top])

RECURSIVE BigAdd(_, _, _, _)
BigAdd(a, b, i, carry) ==
  IF i > Len(a) THEN <<>>
  ELSE <<(a[i] + b[i] + carry) % LimbBase>>
         \o BigAdd(a, b, i + 1, (a[i] + b[i] + carry) \div LimbBase)

\* a - b for a >= b
RECURSIVE BigSub(_, _, _, _)
BigSub(a, b, i, borrow) ==
  IF i > Len(a) THEN <<>>
  ELSE <<(a[i] - b[i] - borrow + LimbBase) % LimbBase>>
         \o BigSub(a, b, i + 1, IF a[i] - b[i] - borrow < 0 THEN 1 ELSE 0)

\* round to nearest, ties to even: the bits below the 53 significant ones
\* (fewer than LimbBits of them for the values that occur) are dropped
RoundDouble(a) ==
  LET drop == BitLength(a) - MantissaBits
      unit == Pow2(drop)
      rest == a[1] % unit
      odd  == (a[1] \div unit) % 2 = 1
      down == <<a[1] - rest>> \o Tail(a)
  IN  IF drop <= 0 THEN a
      ELSE IF 2 * rest > unit \/ (2 * rest = unit /\ odd)
      THEN BigAdd(down, <<unit, 0, 0, 0>>, 1, 0)
      ELSE down

\* x + y and x - y of two numbers
DoubleAdd(x, y) == RoundDouble(BigAdd(x, y, 1, 0))

DoubleSub(x, y) == RoundDouble(BigSub(x, y, 1, 0))

FrameShapes == {<<1, 2>>, <<2, 1>>, <<2, 2>>, <<1, 3>>}

\* the array capacities: the capacities of the items, sorted descending
FrameCapacities(T) ==
  {[i \in 1..T |-> DoubleValues[c[i]]] :
     c \in {d \in [1..T -> 1..Len(DoubleValues)] :
              \A i \in 1..(T - 1) : d[i] >= d[i + 1]}}

FrameOptions ==
  [maxIters : {3, BtDefaultMaxIters}, maxRecursionDepth : {1, BtDefaultMaxDepth},
   visits : BtVisits]

\* "backtrackRecursive(0, initialGroups, initialSums, 0, 0)": svItems holds
\* capacities; a frame is a call with its loop variable g and, once it has
\* pushed, the buffers as they were before the push
InitFrames ==
  /\ svShape \in FrameShapes
  /\ svItems \in FrameCapacities(svShape[1] * svShape[2])
  /\ \E o \in FrameOptions : svCall = [solver |-> "backtrackRecursive", options |-> o]
  /\ svOut = [pc            |-> "enter",
              stack         |-> <<[itemIndex |-> 0, depth |-> 0, g |-> 0, before |-> <<>>]>>,
              currentGroups |-> Arrays([g \in 1..svShape[1] |-> <<>>]),
              currentSums   |-> Array([g \in 1..svShape[1] |-> DoubleZero]),
              iterations    |-> 0]
  /\ EvIdle /\ FlIdle /\ KkIdle /\ LrIdle /\ PbIdle /\ RmIdle

\* "return": the frame is left; the caller goes on after its call
FrameReturn(s) ==
  [s EXCEPT !.stack = SubSeq(@, 1, Len(@) - 1),
            !.pc = IF Len(s.stack) = 1 THEN "done" ELSE "returned"]

\* entry of backtrackRecursive: the guards and the test for the last item
BtEnter ==
  /\ svCall.solver = "backtrackRecursive"
  /\ svOut.pc = "enter"
  /\ LET top     == svOut.stack[Len(svOut.stack)]
         counted == [svOut EXCEPT !.iterations = @ + 1]
     IN  svOut' = IF \/ counted.iterations > svCall.options.maxIters
                     \/ counted.iterations > svCall.options.visits
                     \/ top.depth > svCall.options.maxRecursionDepth
                     \/ top.itemIndex = Len(svItems)
                  THEN FrameReturn(counted)
                  ELSE [counted EXCEPT !.pc = "loop"]
  /\ UNCHANGED <<svItems, svShape, svCall, evVars, flVars, kkVars, lrVars, pbVars, rmVars>>

\* "for (let g = 0; g < targetGroups; g++)": a group with space takes the
\* item and the next call starts; after the last group the call returns
BtLoop ==
  /\ svCall.solver = "backtrackRecursive"
  /\ svOut.pc = "loop"
  /\ LET n   == Len(svOut.stack)
         top == svOut.stack[n]
         g   == top.g + 1
     IN  svOut' =
           IF top.g >= svShape[1] THEN FrameReturn(svOut)
           ELSE IF Len(svOut.currentGroups[g]) < svShape[2]
           THEN [pc            |-> "enter",
                 stack         |-> Append(
                                     [svOut.stack EXCEPT ![n].before =
                                        <<[currentGroups |-> svOut.currentGroups,
                                           currentSums   |-> svOut.currentSums]>>],
                                     [itemIndex |-> top.itemIndex + 1,
                                      depth |-> top.depth + 1, g |-> 0, before |-> <<>>]),
                 currentGroups |-> [svOut.currentGroups EXCEPT ![g] = Append(@, top.itemIndex)],
                 currentSums   |-> [svOut.currentSums EXCEPT ![g] =
                                      DoubleAdd(@, svItems[top.itemIndex + 1])],
                 iterations    |-> svOut.iterations]
           ELSE [svOut EXCEPT !.stack[n].g = @ + 1]
  /\ UNCHANGED <<svItems, svShape, svCall, evVars, flVars, kkVars, lrVars, pbVars, rmVars>>

\* after the call: "currentGroups[g].pop(); currentSums[g] = currentSums[g]
\* - capacities[itemIndex]"
BtRestore ==
  /\ svCall.solver = "backtrackRecursive"
  /\ svOut.pc = "returned"
  /\ LET top == svOut.stack[Len(svOut.stack)]
         g   == top.g + 1
     IN  svOut' = [svOut EXCEPT
                     !.pc = "restored",
                     !.currentGroups[g] = SubSeq(@, 1, Len(@) - 1),
                     !.currentSums[g] = DoubleSub(@, svItems[top.itemIndex + 1])]
  /\ UNCHANGED <<svItems, svShape, svCall, evVars, flVars, kkVars, lrVars, pbVars, rmVars>>

\* "g++"
BtAdvance ==
  /\ svCall.solver = "backtrackRecursive"
  /\ svOut.pc = "restored"
  /\ svOut' = [svOut EXCEPT !.pc = "loop", !.stack[Len(svOut.stack)].g = @ + 1]
  /\ UNCHANGED <<svItems, svShape, svCall, evVars, flVars, kkVars, lrVars, pbVars, rmVars>>

SpecFrames == InitFrames /\ [][BtEnter \/ BtLoop \/ BtRestore \/ BtAdvance]_vars

\* C30: when a recursive call of backtrackRecursive has returned and the
\* caller has popped the item and taken its capacity off the sum, the
\* shared currentGroups and currentSums are exactly what they were before
\* the item was pushed, whichever way the call returned
C30_FrameRestored ==
  (svCall.solver = "backtrackRecursive" /\ svOut.pc = "restored") =>
    LET top == svOut.stack[Len(svOut.stack)]
    IN  /\ svOut.currentGroups = top.before[1].currentGroups
        /\ svOut.currentSums = top.before[1].currentSums

====
